---------------------------- MODULE Spec2Model ----------------------------
(***************************************************************************)
(* A model of the papo bot (src/bot.py): the golden-noodles ledger         *)
(* (smuckles_users + smuckles_log), the give and bonk cooldown maps, the   *)
(* bonk log with its streak / penalty thresholds, and the Spotify link     *)
(* capture (live capture in on_message, backfill in /paposcan).            *)
(*                                                                         *)
(* Every coroutine of the bot is a handler slot p \in Procs.  A handler    *)
(* runs synchronously up to its next await; each await on the database or  *)
(* on Discord is one step of the model, so handlers interleave exactly at  *)
(* the awaits, as asyncio schedules them.                                  *)
(***************************************************************************)
EXTENDS Integers, Sequences, FiniteSets, TLC

\* ------------------------------------------------------------- CONFIG
\* The Discord ids are 64-bit snowflakes; the model keeps their order
\* (ADMIN < TARGET < GIVER) and nothing else about them.
ADMIN_USER_ID == 1
TARGET_USER_ID == 2
AUTHORIZED_GIVER_ID == 3
\* Two members with no role in the configuration.
OTHER_USER_ID == 4
SECOND_USER_ID == 5
\* bot.user.id, the actor of the bonk penalty's ledger entry.
BOT_USER_ID == 9

MULTIPLE_OF == 5
JACKPOT == 100
GIVE_COOLDOWN_SECONDS == 8
BONK_COOLDOWN_SECONDS == 3
BONK_STREAK_STEP == 10
BONK_PENALTY_STEP == 20
BONK_PENALTY_AMOUNT == 5

\* ------------------------------------------------------------- BOUNDS
\* Handler slots that may run concurrently; in the concurrent specifications
\* each slot runs one handler.
NProcs == 2
\* Handlers started in one behaviour of the sequential specifications.
MaxSeqOps == 3
\* The event-loop clock stops advancing here.
MaxTime == 17
\* Calendar days the database clock may advance.
MaxDay == 1
\* Messages in a channel's history.
MaxHist == 2
\* Messages channel.history fetches per request (100 in discord.py).
ScanPage == 1

\* Tokens in a message text and embeds on a message for the extraction.
MaxText == 2
MaxEmbeds == 2
\* Bonks in one behaviour of the threshold specification.
MaxBonks == 20

Procs == 1 .. NProcs

VARIABLES
    smuckles_users,         \* (guild_id, user_id) -> points, one row per key
    smuckles_log,           \* sequence of ledger rows, in id order
    smuckles_bonk_log,      \* sequence of bonk rows, in id / created_at order
    smuckles_spotify_links, \* sequence of link rows, in id order
    smuckles_reminders,     \* sequence of reminder rows, in id order
    last_give_ts,           \* user_id -> loop time of the last allowed give
    last_bonk_ts,           \* user_id -> loop time of the last allowed bonk
    now,                    \* asyncio.get_event_loop().time()
    today,                  \* the database's CURRENT_DATE
    h,                      \* handler slot -> its position and locals
    sent,                   \* channel messages sent, counted by kind
    errors,                 \* exceptions raised so far, caught or not
    started                 \* handlers started so far

dbVars == <<smuckles_users, smuckles_log, smuckles_bonk_log, smuckles_spotify_links,
           smuckles_reminders>>
gateVars == <<last_give_ts, last_bonk_ts>>
vars == <<smuckles_users, smuckles_log, smuckles_bonk_log, smuckles_spotify_links,
          smuckles_reminders, last_give_ts, last_bonk_ts, now, today, h, sent, errors, started>>

\* ------------------------------------------------------------ HELPERS
\* dict.get(key, default)
DictGet(d, k, default) == IF k \in DOMAIN d THEN d[k] ELSE default

\* d[key] = value
DictPut(d, k, v) == [x \in DOMAIN d \cup {k} |-> IF x = k THEN v ELSE d[x]]

EmptyDict == [x \in {} |-> 0]

RECURSIVE SumDelta(_)
SumDelta(rows) ==
    IF rows = <<>> THEN 0 ELSE Head(rows).delta + SumDelta(Tail(rows))

\* No message: the msg local of a handler that is not handling one.
NoMsg == [id |-> 0, author |-> 0, guild |-> 0, channel |-> 0,
          content |-> <<>>, embeds |-> <<>>, mentions |-> {}]

\* The slot of a handler that is not running.  before, inserted and window are
\* history fields: the balance adjust_points found, the rows a scan's INSERTs
\* really added, and the messages channel.history had to yield to the scan.
\* win is the window argument of /bonktop and /bonkremove, removed what
\* remove_bonks_for_user returned, rows what a leaderboard query returned.
IdleSlot ==
    [pc |-> "idle", cmd |-> "none", guild |-> 0, user |-> 0, member |-> 0,
     amount |-> 0, delta |-> 0, reply |-> "none", total |-> 0, before |-> 0,
     count_today |-> 0, channel |-> 0, msg |-> NoMsg, urls |-> <<>>,
     todo |-> <<>>, hist |-> <<>>, page |-> <<>>, scanned |-> 0,
     matched_msgs |-> 0, saved_urls |-> 0, inserted |-> 0, window |-> <<>>,
     win |-> "none", removed |-> 0, rows |-> <<>>]

Set(p, fields) ==
    h' = [h EXCEPT ![p] = [f \in DOMAIN IdleSlot |->
                             IF f \in DOMAIN fields THEN fields[f] ELSE h[p][f]]]

\* ------------------------------------------------------ Golden Noodles
\* SELECT points ... ; int(row[0]) if row else 0
get_points(guild_id, user_id) ==
    DictGet(smuckles_users, <<guild_id, user_id>>, 0)

\* adjust_points with SET points = $1 in place of points = points + $1.
adjust_points_overwrite(guild_id, target_id, delta) ==
    DictPut(smuckles_users, <<guild_id, target_id>>, delta)

\* adjust_points without its INSERT: the UPDATE finds no row of an account
\* that has none and changes nothing.
adjust_points_update_only(guild_id, target_id, delta) ==
    IF <<guild_id, target_id>> \in DOMAIN smuckles_users
    THEN DictPut(smuckles_users, <<guild_id, target_id>>,
                 smuckles_users[<<guild_id, target_id>>] + delta)
    ELSE smuckles_users

\* INSERT ... VALUES ($1,$2,0) ON CONFLICT DO NOTHING; UPDATE ... SET points =
\* points + $1, in one transaction: the table after the commit.
adjust_points(guild_id, target_id, delta) ==
    DictPut(smuckles_users, <<guild_id, target_id>>,
            DictGet(smuckles_users, <<guild_id, target_id>>, 0) + delta)

\* log_txn given the amount where the code gives the signed delta.
log_txn_unsigned(guild_id, actor_id, target_id, delta) ==
    Append(smuckles_log,
           [guild_id |-> guild_id, actor_id |-> actor_id, target_id |-> target_id,
            delta |-> IF delta < 0 THEN -delta ELSE delta])

\* INSERT INTO smuckles_log (guild_id, actor_id, target_id, delta, reason)
log_txn(guild_id, actor_id, target_id, delta) ==
    Append(smuckles_log,
           [guild_id |-> guild_id, actor_id |-> actor_id,
            target_id |-> target_id, delta |-> delta])

\* The ledger rows of one (guild, account).
LedgerOf(guild_id, user_id) ==
    SelectSeq(smuckles_log,
              LAMBDA r : r.guild_id = guild_id /\ r.target_id = user_id)


\* ------------------------------------------------------------- HELPERS
is_admin(user_id) == user_id = ADMIN_USER_ID

is_authorized_actor(user_id) == user_id \in {AUTHORIZED_GIVER_ID, ADMIN_USER_ID}

\* amount >= 0 in place of amount > 0.
is_valid_multiple_zero(amount) == amount >= 0 /\ amount % MULTIPLE_OF = 0

is_valid_multiple(amount) == amount > 0 /\ amount % MULTIPLE_OF = 0

\* on_cooldown's return value: True when the give is inside the cooldown.
on_cooldown(user_id) ==
    now - DictGet(last_give_ts, user_id, 0) < GIVE_COOLDOWN_SECONDS

\* on_cooldown with <= in place of <.
on_cooldown_stamp_late(user_id) ==
    /\ last_give_ts' = IF now - DictGet(last_give_ts, user_id, 0) <= GIVE_COOLDOWN_SECONDS
                       THEN last_give_ts
                       ELSE DictPut(last_give_ts, user_id, now)
    /\ UNCHANGED last_bonk_ts

\* on_cooldown that stamps on every call, also when it answers True.
on_cooldown_stamp_always(user_id) ==
    /\ last_give_ts' = DictPut(last_give_ts, user_id, now)
    /\ UNCHANGED last_bonk_ts

\* on_cooldown and bonk_on_cooldown sharing one dict.
on_cooldown_stamp_shared(user_id) ==
    /\ last_give_ts' = IF on_cooldown(user_id) THEN last_give_ts
                       ELSE DictPut(last_give_ts, user_id, now)
    /\ last_bonk_ts' = last_give_ts'

\* on_cooldown's effect: last_give_ts[user_id] = now unless it answers True.
on_cooldown_stamp(user_id) ==
    /\ last_give_ts' = IF on_cooldown(user_id) THEN last_give_ts
                       ELSE DictPut(last_give_ts, user_id, now)
    /\ UNCHANGED last_bonk_ts

\* bonk_on_cooldown's return value.
bonk_on_cooldown(user_id) ==
    now - DictGet(last_bonk_ts, user_id, 0) < BONK_COOLDOWN_SECONDS

\* bonk_on_cooldown that stamps on every call, also when it answers True.
bonk_on_cooldown_stamp_always(user_id) ==
    /\ last_bonk_ts' = DictPut(last_bonk_ts, user_id, now)
    /\ UNCHANGED last_give_ts

\* bonk_on_cooldown's effect.
bonk_on_cooldown_stamp(user_id) ==
    /\ last_bonk_ts' = IF bonk_on_cooldown(user_id) THEN last_bonk_ts
                       ELSE DictPut(last_bonk_ts, user_id, now)
    /\ UNCHANGED last_give_ts

\* --------------------------------------------------------------- /give
\* give with the amount checked before the actor and the member.
give_verdict_amount_first(user_id, member_id, amount) ==
    IF ~(is_valid_multiple(amount) \/ amount = JACKPOT) THEN "bad_amount"
    ELSE IF ~is_authorized_actor(user_id) THEN "unauthorized"
    ELSE IF member_id # TARGET_USER_ID THEN "bad_target"
    ELSE IF on_cooldown(user_id) /\ ~is_admin(user_id) THEN "cooldown"
    ELSE "ok"

\* give without its check of the member.
give_verdict_any_member(user_id, member_id, amount) ==
    IF ~is_authorized_actor(user_id) THEN "unauthorized"
    ELSE IF ~(is_valid_multiple(amount) \/ amount = JACKPOT) THEN "bad_amount"
    ELSE IF on_cooldown(user_id) /\ ~is_admin(user_id) THEN "cooldown"
    ELSE "ok"

\* give with the cooldown applied to the admin as to the giver.
give_verdict_no_exemption(user_id, member_id, amount) ==
    IF ~is_authorized_actor(user_id) THEN "unauthorized"
    ELSE IF member_id # TARGET_USER_ID THEN "bad_target"
    ELSE IF ~(is_valid_multiple(amount) \/ amount = JACKPOT) THEN "bad_amount"
    ELSE IF on_cooldown(user_id) THEN "cooldown"
    ELSE "ok"

\* The early returns of give, in the order of the code.
give_verdict(user_id, member_id, amount) ==
    IF ~is_authorized_actor(user_id) THEN "unauthorized"
    ELSE IF member_id # TARGET_USER_ID THEN "bad_target"
    ELSE IF ~(is_valid_multiple(amount) \/ amount = JACKPOT) THEN "bad_amount"
    ELSE IF on_cooldown(user_id) /\ ~is_admin(user_id) THEN "cooldown"
    ELSE "ok"

\* The early returns of take: there is no cooldown check.
take_verdict(user_id, member_id, amount) ==
    IF ~is_authorized_actor(user_id) THEN "unauthorized"
    ELSE IF member_id # TARGET_USER_ID THEN "bad_target"
    ELSE IF ~(is_valid_multiple(amount) \/ amount = JACKPOT) THEN "bad_amount"
    ELSE "ok"

\* give up to its first await: the checks, with on_cooldown called (and
\* stamping) only when the three checks before it pass.
give(p, guild_id, user_id, member_id, amount) ==
    LET verdict == give_verdict(user_id, member_id, amount) IN
    /\ h[p].pc = "idle"
    /\ IF verdict \in {"cooldown", "ok"}
       THEN on_cooldown_stamp(user_id)
       ELSE UNCHANGED gateVars
    /\ Set(p, [pc |-> IF verdict = "ok" THEN "adjust" ELSE "rejected",
               cmd |-> "give", guild |-> guild_id, user |-> user_id,
               member |-> member_id, amount |-> amount, delta |-> amount,
               reply |-> IF verdict = "ok" THEN "none" ELSE verdict])
    /\ started' = started + 1
    /\ UNCHANGED <<dbVars, now, today, sent, errors>>

\* take up to its first await.
take(p, guild_id, user_id, member_id, amount) ==
    LET verdict == take_verdict(user_id, member_id, amount) IN
    /\ h[p].pc = "idle"
    /\ Set(p, [pc |-> IF verdict = "ok" THEN "adjust" ELSE "rejected",
               cmd |-> "take", guild |-> guild_id, user |-> user_id,
               member |-> member_id, amount |-> amount, delta |-> -amount,
               reply |-> IF verdict = "ok" THEN "none" ELSE verdict])
    /\ started' = started + 1
    /\ UNCHANGED <<dbVars, gateVars, now, today, sent, errors>>

\* await adjust_points(interaction.guild_id, member.id, +-amount)
give_adjust(p) ==
    /\ h[p].pc = "adjust" /\ h[p].cmd \in {"give", "take"}
    /\ smuckles_users' = adjust_points(h[p].guild, h[p].member, h[p].delta)
    /\ Set(p, [pc |-> "log_txn", before |-> get_points(h[p].guild, h[p].member)])
    /\ UNCHANGED <<smuckles_log, smuckles_bonk_log, smuckles_spotify_links,
                   smuckles_reminders, gateVars, now, today, sent, errors, started>>

\* await log_txn(interaction.guild_id, interaction.user.id, member.id, +-amount, reason)
give_log(p) ==
    /\ h[p].pc = "log_txn" /\ h[p].cmd \in {"give", "take"}
    /\ smuckles_log' = log_txn(h[p].guild, h[p].user, h[p].member, h[p].delta)
    /\ Set(p, [pc |-> "get_points"])
    /\ UNCHANGED <<smuckles_users, smuckles_bonk_log, smuckles_spotify_links,
                   smuckles_reminders, gateVars, now, today, sent, errors, started>>

\* total = await get_points(...); await interaction.response.send_message(text)
give_total(p) ==
    /\ h[p].pc = "get_points" /\ h[p].cmd \in {"give", "take"}
    /\ Set(p, [pc |-> "done", reply |-> "ok",
               total |-> get_points(h[p].guild, h[p].member)])
    /\ UNCHANGED <<dbVars, gateVars, now, today, sent, errors, started>>

\* An await on the database raises inside give or take: nothing catches it, the
\* command ends there.  A raise inside adjust_points rolls its transaction back.
give_raise(p) ==
    /\ h[p].pc \in {"adjust", "log_txn", "get_points"}
    /\ h[p].cmd \in {"give", "take"}
    /\ Set(p, [pc |-> "raised", reply |-> "error"])
    /\ errors' = errors + 1
    /\ UNCHANGED <<dbVars, gateVars, now, today, sent, started>>

\* get_points awaited on its own, for any account: the SELECT and the value
\* it returns.
get_points_call(p, guild_id, user_id) ==
    /\ h[p].pc = "idle"
    /\ Set(p, [pc |-> "done", cmd |-> "get_points", guild |-> guild_id,
               member |-> user_id, total |-> get_points(guild_id, user_id)])
    /\ UNCHANGED <<dbVars, gateVars, now, today, sent, errors, started>>

\* --------------------------------------------------------------- Bonks
\* INSERT INTO smuckles_bonk_log (...); created_at defaults to NOW(), of which
\* the queries read the date.  channel_id and message_id are never read back.
log_bonk(guild_id, bonker_id) ==
    Append(smuckles_bonk_log,
           [guild_id |-> guild_id, bonker_id |-> bonker_id,
            target_id |-> TARGET_USER_ID, day |-> today])

\* The count without its date filter.
today_bonk_count_all_days(guild_id) ==
    Cardinality({i \in DOMAIN smuckles_bonk_log :
                   /\ smuckles_bonk_log[i].guild_id = guild_id
                   /\ smuckles_bonk_log[i].target_id = TARGET_USER_ID})

\* SELECT COUNT(*) ... WHERE guild_id=$1 AND target_id=$2 AND created_at::date = CURRENT_DATE
today_bonk_count(guild_id) ==
    Cardinality({i \in DOMAIN smuckles_bonk_log :
                   /\ smuckles_bonk_log[i].guild_id = guild_id
                   /\ smuckles_bonk_log[i].target_id = TARGET_USER_ID
                   /\ smuckles_bonk_log[i].day = today})

\* The window filters of the bonk queries, with timestamps in whole days:
\* created_at::date = CURRENT_DATE, created_at >= NOW() - INTERVAL '7 days'.
InWindow(row, window) ==
    CASE window = "day" -> row.day = today
      [] window = "week" -> row.day >= today - 7
      [] OTHER -> TRUE

\* The rows of bonker_id against the target in the guild and the window.
BonksOf(guild_id, bonker_id, window) ==
    {i \in DOMAIN smuckles_bonk_log :
       /\ smuckles_bonk_log[i].guild_id = guild_id
       /\ smuckles_bonk_log[i].target_id = TARGET_USER_ID
       /\ smuckles_bonk_log[i].bonker_id = bonker_id
       /\ InWindow(smuckles_bonk_log[i], window)}

\* The count oldest rows of S, where the code takes the count newest.
oldest_of(S, count) == {i \in S : Cardinality({j \in S : j < i}) < count}

\* SELECT id ... ORDER BY created_at DESC LIMIT $4: the count newest rows of S.
newest_of(S, count) == {i \in S : Cardinality({j \in S : j > i}) < count}

\* WITH to_del AS (...): the rows remove_bonks_for_user deletes.
to_del(guild_id, bonker_id, window, count) ==
    IF count <= 0 THEN {}
    ELSE newest_of(BonksOf(guild_id, bonker_id, window), count)

\* rows without those at the indices in D.
RECURSIVE Without(_, _, _)
Without(rows, D, i) ==
    IF i > Len(rows) THEN <<>>
    ELSE (IF i \in D THEN <<>> ELSE <<rows[i]>>) \o Without(rows, D, i + 1)

\* remove_bonks_for_user: the table after the DELETE; it returns the number
\* of rows of to_del.
remove_bonks_for_user(guild_id, bonker_id, window, count) ==
    Without(smuckles_bonk_log, to_del(guild_id, bonker_id, window, count), 1)

\* The sequences of the elements of S, each once.
Orderings(S) ==
    {f \in [1 .. Cardinality(S) -> S] : \A i, j \in DOMAIN f : f[i] = f[j] => i = j}

\* max(1, min(30, limit))
BoardLimit(limit) == IF limit < 1 THEN 1 ELSE IF limit > 30 THEN 30 ELSE limit

\* The first n elements of f.
Top(f, n) == SubSeq(f, 1, IF Len(f) < n THEN Len(f) ELSE n)

\* bonk_leaderboard: GROUP BY bonker_id ORDER BY c DESC LIMIT $3.  The order
\* of groups with equal c is not defined by the query: every result that
\* PostgreSQL may return.
bonk_leaderboard(guild_id, window, limit) ==
    LET bonkers == {smuckles_bonk_log[i].bonker_id : i \in DOMAIN smuckles_bonk_log}
        c(b) == Cardinality(BonksOf(guild_id, b, window))
        groups == {<<b, c(b)>> : b \in {x \in bonkers : c(x) > 0}}
    IN  {Top(f, limit) : f \in {g \in Orderings(groups) :
                                  \A i \in 1 .. Len(g) - 1 : g[i][2] >= g[i + 1][2]}}

\* sandia's query: SELECT user_id, points ... WHERE guild_id=$1 ORDER BY points
\* DESC LIMIT $2, with the order of equal points likewise not defined.
sandia_rows(guild_id, limit) ==
    LET accounts == {<<k[2], smuckles_users[k]>> :
                       k \in {x \in DOMAIN smuckles_users : x[1] = guild_id}}
    IN  {Top(f, limit) : f \in {g \in Orderings(accounts) :
                                  \A i \in 1 .. Len(g) - 1 : g[i][2] >= g[i + 1][2]}}

\* /sandia up to its await, and the query with the reply.
sandia(p, guild_id, user_id, limit) ==
    /\ h[p].pc = "idle"
    /\ Set(p, [pc |-> "sandia_query", cmd |-> "sandia", guild |-> guild_id,
               user |-> user_id, amount |-> BoardLimit(limit)])
    /\ started' = started + 1
    /\ UNCHANGED <<dbVars, gateVars, now, today, sent, errors>>

sandia_query(p) ==
    /\ h[p].pc = "sandia_query"
    /\ \E rows \in sandia_rows(h[p].guild, h[p].amount) :
         Set(p, [pc |-> "done", rows |-> rows,
                 reply |-> IF rows = <<>> THEN "empty" ELSE "board"])
    /\ UNCHANGED <<dbVars, gateVars, now, today, sent, errors, started>>

\* /bonktop up to its await: the limit clamped, the window checked.
bonktop(p, guild_id, user_id, limit, window) ==
    /\ h[p].pc = "idle"
    /\ IF window \notin {"all", "day", "week"}
       THEN Set(p, [pc |-> "rejected", cmd |-> "bonktop", guild |-> guild_id,
                    user |-> user_id, win |-> window, reply |-> "bad_window"])
       ELSE Set(p, [pc |-> "bonktop_query", cmd |-> "bonktop", guild |-> guild_id,
                    user |-> user_id, win |-> window, amount |-> BoardLimit(limit)])
    /\ started' = started + 1
    /\ UNCHANGED <<dbVars, gateVars, now, today, sent, errors>>

\* rows = await bonk_leaderboard(...), and the reply.
bonktop_query(p) ==
    /\ h[p].pc = "bonktop_query"
    /\ \E rows \in bonk_leaderboard(h[p].guild, h[p].win, h[p].amount) :
         Set(p, [pc |-> "done", rows |-> rows,
                 reply |-> IF rows = <<>> THEN "empty" ELSE "board"])
    /\ UNCHANGED <<dbVars, gateVars, now, today, sent, errors, started>>

\* /bonkremove up to its await: the admin, window and count checks.
bonkremove(p, guild_id, user_id, member_id, count, window) ==
    LET verdict == IF user_id # ADMIN_USER_ID THEN "unauthorized"
                   ELSE IF window \notin {"all", "day", "week"} THEN "bad_window"
                   ELSE IF count <= 0 \/ count > 1000 THEN "bad_count"
                   ELSE "ok" IN
    /\ h[p].pc = "idle"
    /\ Set(p, [pc |-> IF verdict = "ok" THEN "remove" ELSE "rejected",
               cmd |-> "bonkremove", guild |-> guild_id, user |-> user_id,
               member |-> member_id, amount |-> count, win |-> window,
               reply |-> IF verdict = "ok" THEN "none" ELSE verdict])
    /\ started' = started + 1
    /\ UNCHANGED <<dbVars, gateVars, now, today, sent, errors>>

\* removed = await remove_bonks_for_user(...), and the reply.
bonkremove_delete(p) ==
    LET n == Cardinality(to_del(h[p].guild, h[p].member, h[p].win, h[p].amount)) IN
    /\ h[p].pc = "remove"
    /\ smuckles_bonk_log' =
         remove_bonks_for_user(h[p].guild, h[p].member, h[p].win, h[p].amount)
    /\ Set(p, [pc |-> "done", removed |-> n,
               reply |-> IF n = 0 THEN "none_found" ELSE "removed"])
    /\ UNCHANGED <<smuckles_users, smuckles_log, smuckles_spotify_links,
                   smuckles_reminders, gateVars, now, today, sent, errors, started>>

\* "bonk" in low
HasBonk(msg) == \E i \in DOMAIN msg.content : msg.content[i] = "bonk"

\* on_message up to its first await.  A bot's message is dropped.  In a guild
\* channel a message with "bonk" passes the bonk cooldown or skips the bonk
\* section; the BONK! announcement is sent, or its failure swallowed (sendOk).
on_message(p, msg, sendOk) ==
    /\ h[p].pc = "idle"
    /\ IF msg.author = BOT_USER_ID
       THEN /\ Set(p, [pc |-> "done", cmd |-> "message", msg |-> msg,
                       guild |-> msg.guild, user |-> msg.author,
                       reply |-> "ignored"])
            /\ UNCHANGED <<gateVars, sent>>
       ELSE IF msg.guild # 0 /\ HasBonk(msg)
       THEN /\ bonk_on_cooldown_stamp(msg.author)
            /\ IF bonk_on_cooldown(msg.author)
               THEN /\ Set(p, [pc |-> "spotify", cmd |-> "message", msg |-> msg,
                               guild |-> msg.guild, user |-> msg.author,
                               reply |-> "cooldown"])
                    /\ UNCHANGED sent
               ELSE /\ Set(p, [pc |-> "log_bonk", cmd |-> "message", msg |-> msg,
                               guild |-> msg.guild, user |-> msg.author,
                               reply |-> "bonk"])
                    /\ sent' = IF sendOk THEN [sent EXCEPT !.bonk = @ + 1] ELSE sent
       ELSE /\ Set(p, [pc |-> "spotify", cmd |-> "message", msg |-> msg,
                       guild |-> msg.guild, user |-> msg.author])
            /\ UNCHANGED <<gateVars, sent>>
    /\ errors' = IF sent' = sent /\ h'[p].pc = "log_bonk" THEN errors + 1 ELSE errors
    /\ started' = started + 1
    /\ UNCHANGED <<dbVars, now, today>>

\* await log_bonk(guild_id=message.guild.id, bonker_id=message.author.id, ...)
bonk_log(p) ==
    /\ h[p].pc = "log_bonk"
    /\ smuckles_bonk_log' = log_bonk(h[p].guild, h[p].user)
    /\ Set(p, [pc |-> "count"])
    /\ UNCHANGED <<smuckles_users, smuckles_log, smuckles_spotify_links,
                   smuckles_reminders, gateVars, now, today, sent, errors, started>>

\* count_today = await today_bonk_count(message.guild.id)
bonk_count(p) ==
    /\ h[p].pc = "count"
    /\ Set(p, [pc |-> "streak", count_today |-> today_bonk_count(h[p].guild)])
    /\ UNCHANGED <<dbVars, gateVars, now, today, sent, errors, started>>

\* The threshold checks as if / elif: no penalty where the meme is sent.
bonk_streak_exclusive(p) ==
    /\ h[p].pc = "streak"
    /\ sent' = IF h[p].count_today % BONK_STREAK_STEP = 0
               THEN [sent EXCEPT !.meme = @ + 1] ELSE sent
    /\ Set(p, [pc |-> IF /\ h[p].count_today % BONK_STREAK_STEP # 0
                         /\ h[p].count_today % BONK_PENALTY_STEP = 0
                      THEN "adjust" ELSE "spotify",
               member |-> TARGET_USER_ID, delta |-> -BONK_PENALTY_AMOUNT])
    /\ UNCHANGED <<dbVars, gateVars, now, today, errors, started>>

\* The two threshold checks on count_today: the meme is sent at a multiple of
\* BONK_STREAK_STEP, and the penalty follows at a multiple of BONK_PENALTY_STEP.
bonk_streak(p) ==
    /\ h[p].pc = "streak"
    /\ sent' = IF h[p].count_today % BONK_STREAK_STEP = 0
               THEN [sent EXCEPT !.meme = @ + 1] ELSE sent
    /\ Set(p, [pc |-> IF h[p].count_today % BONK_PENALTY_STEP = 0
                      THEN "adjust" ELSE "spotify",
               member |-> TARGET_USER_ID, delta |-> -BONK_PENALTY_AMOUNT])
    /\ UNCHANGED <<dbVars, gateVars, now, today, errors, started>>

\* await adjust_points(message.guild.id, TARGET_USER_ID, -BONK_PENALTY_AMOUNT)
penalty_adjust(p) ==
    /\ h[p].pc = "adjust" /\ h[p].cmd = "message"
    /\ smuckles_users' = adjust_points(h[p].guild, TARGET_USER_ID, -BONK_PENALTY_AMOUNT)
    /\ Set(p, [pc |-> "log_txn", before |-> get_points(h[p].guild, TARGET_USER_ID)])
    /\ UNCHANGED <<smuckles_log, smuckles_bonk_log, smuckles_spotify_links,
                   smuckles_reminders, gateVars, now, today, sent, errors, started>>

\* await log_txn(guild_id, actor_id=bot.user.id, TARGET_USER_ID, -BONK_PENALTY_AMOUNT, ...)
penalty_log(p) ==
    /\ h[p].pc = "log_txn" /\ h[p].cmd = "message"
    /\ smuckles_log' = log_txn(h[p].guild, BOT_USER_ID, TARGET_USER_ID,
                               -BONK_PENALTY_AMOUNT)
    /\ Set(p, [pc |-> "get_points"])
    /\ UNCHANGED <<smuckles_users, smuckles_bonk_log, smuckles_spotify_links,
                   smuckles_reminders, gateVars, now, today, sent, errors, started>>

\* total = await get_points(...); await message.channel.send(...)
penalty_total(p) ==
    /\ h[p].pc = "get_points" /\ h[p].cmd = "message"
    /\ Set(p, [pc |-> "spotify", total |-> get_points(h[p].guild, TARGET_USER_ID)])
    /\ sent' = [sent EXCEPT !.penalty = @ + 1]
    /\ UNCHANGED <<dbVars, gateVars, now, today, errors, started>>

\* An await of the bonk section raises: except Exception prints it and
\* on_message goes on with the Spotify section.  The meme's send is awaited
\* only at a multiple of BONK_STREAK_STEP.
bonk_raise(p) ==
    /\ h[p].cmd = "message"
    /\ \/ h[p].pc \in {"log_bonk", "count", "adjust", "log_txn", "get_points"}
       \/ h[p].pc = "streak" /\ h[p].count_today % BONK_STREAK_STEP = 0
    /\ Set(p, [pc |-> "spotify"])
    /\ errors' = errors + 1
    /\ UNCHANGED <<dbVars, gateVars, now, today, sent, started>>


\* ------------------------------------------------------------- Spotify
\* A text is a sequence of tokens; these are the tokens SPOTIFY_REGEX matches.
SpotifyTokens == {"sp_a", "sp_b", "sp_c"}

\* SPOTIFY_REGEX.findall(text): the matches, in their order in the text.
FindAll(text) == SelectSeq(text, LAMBDA t : t \in SpotifyTokens)

RECURSIVE Flatten(_)
Flatten(seqs) == IF seqs = <<>> THEN <<>> ELSE Head(seqs) \o Flatten(Tail(seqs))

\* The matches in one embed field's name, then its value.
FieldMatches(f) == FindAll(f.name) \o FindAll(f.value)

\* The matches in one embed with the title searched before the description.
EmbedMatches_title_first(e) ==
    FindAll(e.url) \o FindAll(e.title) \o FindAll(e.description)
      \o Flatten([i \in DOMAIN e.fields |-> FieldMatches(e.fields[i])])

\* The matches in one embed: url, description, title, then each field.
EmbedMatches(e) ==
    FindAll(e.url) \o FindAll(e.description) \o FindAll(e.title)
      \o Flatten([i \in DOMAIN e.fields |-> FieldMatches(e.fields[i])])

\* seen = set(); out = []; for u in urls: if u not in seen: ...
RECURSIVE Dedupe(_, _)
Dedupe(urls, seen) ==
    IF urls = <<>> THEN <<>>
    ELSE IF Head(urls) \in seen THEN Dedupe(Tail(urls), seen)
    ELSE <<Head(urls)>> \o Dedupe(Tail(urls), seen \cup {Head(urls)})

\* extract_spotify_from_message(msg)
extract_spotify_from_message(msg) ==
    Dedupe(FindAll(msg.content)
             \o Flatten([i \in DOMAIN msg.embeds |-> EmbedMatches(msg.embeds[i])]),
           {})

\* extract_spotify_from_message applied to the message in the slot.
extract(p) ==
    /\ h[p].pc = "idle" /\ h[p].msg # NoMsg
    /\ Set(p, [pc |-> "done", cmd |-> "extract",
               urls |-> extract_spotify_from_message(h[p].msg)])
    /\ UNCHANGED <<dbVars, gateVars, now, today, sent, errors, started>>

\* Live capture searching the message text only.
live_extract_text_only(msg) == Dedupe(FindAll(msg.content), {})

\* The same extraction, written out a second time inside on_message.
live_extract(msg) ==
    Dedupe(FindAll(msg.content)
             \o Flatten([i \in DOMAIN msg.embeds |-> EmbedMatches(msg.embeds[i])]),
           {})

\* UNIQUE (guild_id, user_id, message_id, url)
LinkKey(r) == <<r.guild_id, r.user_id, r.message_id, r.url>>

\* A plain INSERT, with no ON CONFLICT DO NOTHING and no unique constraint.
insert_link_always(guild_id, user_id, channel_id, message_id, url) ==
    Append(smuckles_spotify_links,
           [guild_id |-> guild_id, user_id |-> user_id, channel_id |-> channel_id,
            message_id |-> message_id, url |-> url])

\* One INSERT ... ON CONFLICT DO NOTHING of save_spotify_links: the table after it.
insert_link(guild_id, user_id, channel_id, message_id, url) ==
    IF \E i \in DOMAIN smuckles_spotify_links :
         LinkKey(smuckles_spotify_links[i]) = <<guild_id, user_id, message_id, url>>
    THEN smuckles_spotify_links
    ELSE Append(smuckles_spotify_links,
                [guild_id |-> guild_id, user_id |-> user_id, channel_id |-> channel_id,
                 message_id |-> message_id, url |-> url])

\* on_message's Spotify section up to its await: only the target's messages
\* are searched, and save_spotify_links is called only with a non-empty list.
capture_extract(p) ==
    /\ h[p].pc = "spotify"
    /\ IF h[p].msg.author = TARGET_USER_ID /\ live_extract(h[p].msg) # <<>>
       THEN Set(p, [pc |-> "save", urls |-> live_extract(h[p].msg),
                    todo |-> live_extract(h[p].msg)])
       ELSE Set(p, [pc |-> "reminder"])
    /\ UNCHANGED <<dbVars, gateVars, now, today, sent, errors, started>>

\* One turn of save_spotify_links' loop for live capture: the INSERT, or its
\* exception swallowed (ok = FALSE).  guild_id is 0 for a direct message.
capture_insert(p, ok) ==
    /\ h[p].pc = "save" /\ h[p].cmd = "message" /\ h[p].todo # <<>>
    /\ smuckles_spotify_links' =
         IF ok THEN insert_link(h[p].msg.guild, h[p].msg.author, h[p].msg.channel,
                                h[p].msg.id, Head(h[p].todo))
         ELSE smuckles_spotify_links
    /\ Set(p, [todo |-> Tail(h[p].todo),
               pc |-> IF Tail(h[p].todo) = <<>> THEN "reminder" ELSE "save"])
    /\ errors' = IF ok THEN errors ELSE errors + 1
    /\ UNCHANGED <<smuckles_users, smuckles_log, smuckles_bonk_log, smuckles_reminders,
                   gateVars, now, today, sent, started>>

\* db_pool.acquire() raises inside save_spotify_links, before the first INSERT:
\* on_message's except Exception: pass swallows it.
capture_raise(p) ==
    /\ h[p].pc = "save" /\ h[p].cmd = "message" /\ h[p].todo = h[p].urls
    /\ Set(p, [pc |-> "reminder", todo |-> <<>>])
    /\ errors' = errors + 1
    /\ UNCHANGED <<dbVars, gateVars, now, today, sent, started>>

\* ------------------------------------------------------------ Reminders
\* "remind" in low
HasRemind(msg) == \E i \in DOMAIN msg.content : msg.content[i] = "remind"

\* extract_reminder_note: the text after the first "remind", less the one word
\* the regular expression strips from its front; no note when nothing is left.
extract_reminder_note(content) ==
    LET idx == CHOOSE i \in DOMAIN content :
                 /\ content[i] = "remind"
                 /\ \A j \in 1 .. (i - 1) : content[j] # "remind"
        rest == SubSeq(content, idx + 1, Len(content))
    IN  IF rest = <<>> THEN <<>> ELSE Tail(rest)

\* INSERT INTO smuckles_reminders (guild_id, author_id, channel_id, message_id, mentions, note)
save_reminder(guild_id, author_id, message_id, note) ==
    Append(smuckles_reminders,
           [guild_id |-> guild_id, author_id |-> author_id,
            message_id |-> message_id, note |-> note])

\* on_message's reminder section and its end: in a guild, with the bot
\* mentioned and a note after "remind", the note is saved and confirmed
\* (ok), or the exception swallowed.
on_message_reminder(p, ok) ==
    /\ h[p].pc = "reminder"
    /\ IF /\ h[p].msg.guild # 0
          /\ BOT_USER_ID \in h[p].msg.mentions
          /\ HasRemind(h[p].msg)
          /\ extract_reminder_note(h[p].msg.content) # <<>>
       THEN IF ok
            THEN /\ smuckles_reminders' =
                      save_reminder(h[p].msg.guild, h[p].msg.author, h[p].msg.id,
                                    extract_reminder_note(h[p].msg.content))
                 /\ sent' = [sent EXCEPT !.reminder = @ + 1]
                 /\ UNCHANGED errors
            ELSE /\ errors' = errors + 1
                 /\ UNCHANGED <<smuckles_reminders, sent>>
       ELSE UNCHANGED <<smuckles_reminders, sent, errors>>
    /\ Set(p, [pc |-> "done"])
    /\ UNCHANGED <<smuckles_users, smuckles_log, smuckles_bonk_log,
                   smuckles_spotify_links, gateVars, now, today, started>>

\* The DELETE with the author alone in its WHERE clause.
delete_my_reminders_any_guild(guild_id, author_id) ==
    SelectSeq(smuckles_reminders, LAMBDA r : r.author_id # author_id)

\* delete_my_reminders: DELETE FROM smuckles_reminders WHERE guild_id=$1 AND
\* author_id=$2, the table after it; it returns the number of rows deleted.
delete_my_reminders(guild_id, author_id) ==
    SelectSeq(smuckles_reminders,
              LAMBDA r : ~(r.guild_id = guild_id /\ r.author_id = author_id))

\* clear_remind_bank: DELETE FROM smuckles_reminders WHERE guild_id=$1.
clear_remind_bank(guild_id) ==
    SelectSeq(smuckles_reminders, LAMBDA r : r.guild_id # guild_id)

\* /clearmyreminders up to its await: there is no check.
clearmyreminders(p, guild_id, user_id) ==
    /\ h[p].pc = "idle"
    /\ Set(p, [pc |-> "clear", cmd |-> "clearmyreminders", guild |-> guild_id,
               user |-> user_id])
    /\ started' = started + 1
    /\ UNCHANGED <<dbVars, gateVars, now, today, sent, errors>>

\* deleted = await delete_my_reminders(interaction.guild_id, interaction.user.id)
clearmyreminders_delete(p) ==
    /\ h[p].pc = "clear" /\ h[p].cmd = "clearmyreminders"
    /\ smuckles_reminders' = delete_my_reminders(h[p].guild, h[p].user)
    /\ Set(p, [pc |-> "done", reply |-> "deleted",
               removed |-> Len(smuckles_reminders)
                             - Len(delete_my_reminders(h[p].guild, h[p].user))])
    /\ UNCHANGED <<smuckles_users, smuckles_log, smuckles_bonk_log,
                   smuckles_spotify_links, gateVars, now, today, sent, errors, started>>

\* /clearemindbank up to its await: the admin check.
clearemindbank(p, guild_id, user_id) ==
    /\ h[p].pc = "idle"
    /\ IF user_id # ADMIN_USER_ID
       THEN Set(p, [pc |-> "rejected", cmd |-> "clearemindbank", guild |-> guild_id,
                    user |-> user_id, reply |-> "unauthorized"])
       ELSE Set(p, [pc |-> "clear", cmd |-> "clearemindbank", guild |-> guild_id,
                    user |-> user_id])
    /\ started' = started + 1
    /\ UNCHANGED <<dbVars, gateVars, now, today, sent, errors>>

\* deleted = await clear_remind_bank(interaction.guild_id)
clearemindbank_delete(p) ==
    /\ h[p].pc = "clear" /\ h[p].cmd = "clearemindbank"
    /\ smuckles_reminders' = clear_remind_bank(h[p].guild)
    /\ Set(p, [pc |-> "done", reply |-> "deleted",
               removed |-> Len(smuckles_reminders) - Len(clear_remind_bank(h[p].guild))])
    /\ UNCHANGED <<smuckles_users, smuckles_log, smuckles_bonk_log,
                   smuckles_spotify_links, gateVars, now, today, sent, errors, started>>

\* ----------------------------------------------------------- /paposcan
Min(a, b) == IF a < b THEN a ELSE b
Max(a, b) == IF a > b THEN a ELSE b

\* limit = max(50, min(5000, limit))
ScanLimit(limit) == Max(50, Min(5000, limit))

\* paposcan up to its first await: the admin check, the permission check
\* (perms: what channel.permissions_for answers), then defer().  hist is what
\* channel.history(limit, oldest_first=False) has to yield, newest first.
paposcan(p, guild_id, user_id, channel_id, hist, limit, perms) ==
    LET verdict == IF user_id # ADMIN_USER_ID THEN "unauthorized"
                   ELSE IF ~perms THEN "no_perms" ELSE "ok" IN
    /\ h[p].pc = "idle"
    /\ Set(p, [pc |-> IF verdict = "ok" THEN "scan_next" ELSE "rejected",
               cmd |-> "scan", guild |-> guild_id, user |-> user_id,
               channel |-> channel_id,
               hist |-> IF verdict = "ok"
                        THEN SubSeq(hist, 1, Min(Len(hist), ScanLimit(limit)))
                        ELSE <<>>,
               window |-> IF verdict = "ok"
                          THEN SubSeq(hist, 1, Min(Len(hist), ScanLimit(limit)))
                          ELSE <<>>,
               reply |-> IF verdict = "ok" THEN "none" ELSE verdict])
    /\ started' = started + 1
    /\ UNCHANGED <<dbVars, gateVars, now, today, sent, errors>>

\* The async iterator fetches its next page of messages.
scan_fetch(p) ==
    /\ h[p].pc = "scan_next" /\ h[p].page = <<>> /\ h[p].hist # <<>>
    /\ Set(p, [page |-> SubSeq(h[p].hist, 1, Min(Len(h[p].hist), ScanPage)),
               hist |-> SubSeq(h[p].hist, Min(Len(h[p].hist), ScanPage) + 1,
                               Len(h[p].hist))])
    /\ UNCHANGED <<dbVars, gateVars, now, today, sent, errors, started>>

\* A failing fetch that rolls the scan back: the rows it inserted are removed.
scan_fetch_raise_rollback(p) ==
    /\ h[p].pc = "scan_next" /\ h[p].page = <<>> /\ h[p].hist # <<>>
    /\ smuckles_spotify_links' =
         SubSeq(smuckles_spotify_links, 1,
                Len(smuckles_spotify_links) - h[p].inserted)
    /\ Set(p, [pc |-> "done", reply |-> "error"])
    /\ errors' = errors + 1
    /\ UNCHANGED <<smuckles_users, smuckles_log, smuckles_bonk_log, smuckles_reminders,
                   gateVars, now, today, sent, started>>

\* The fetch raises discord.Forbidden or discord.HTTPException: the handler
\* answers with the error text alone and returns.
scan_fetch_raise(p) ==
    /\ h[p].pc = "scan_next" /\ h[p].page = <<>> /\ h[p].hist # <<>>
    /\ Set(p, [pc |-> "done", reply |-> "error"])
    /\ errors' = errors + 1
    /\ UNCHANGED <<dbVars, gateVars, now, today, sent, started>>

\* One turn of the async for, up to save_spotify_links' await.
scan_message(p) ==
    LET msg == Head(h[p].page)
        urls == extract_spotify_from_message(msg) IN
    /\ h[p].pc = "scan_next" /\ h[p].page # <<>>
    /\ IF msg.author = TARGET_USER_ID /\ urls # <<>>
       THEN Set(p, [pc |-> "scan_save", msg |-> msg, urls |-> urls, todo |-> urls,
                    scanned |-> h[p].scanned + 1,
                    matched_msgs |-> h[p].matched_msgs + 1])
       ELSE Set(p, [page |-> Tail(h[p].page), scanned |-> h[p].scanned + 1])
    /\ UNCHANGED <<dbVars, gateVars, now, today, sent, errors, started>>

\* One turn of save_spotify_links' loop for the scan: the INSERT, or its
\* exception swallowed (ok = FALSE).  After the last one, saved_urls += len(urls).
scan_insert(p, ok) ==
    LET after == IF ok THEN insert_link(h[p].guild, TARGET_USER_ID, h[p].channel,
                                        h[p].msg.id, Head(h[p].todo))
                 ELSE smuckles_spotify_links
        last == Tail(h[p].todo) = <<>> IN
    /\ h[p].pc = "scan_save" /\ h[p].todo # <<>>
    /\ smuckles_spotify_links' = after
    /\ Set(p, [todo |-> Tail(h[p].todo),
               inserted |-> h[p].inserted + Len(after) - Len(smuckles_spotify_links),
               saved_urls |-> IF last THEN h[p].saved_urls + Len(h[p].urls)
                              ELSE h[p].saved_urls,
               page |-> IF last THEN Tail(h[p].page) ELSE h[p].page,
               pc |-> IF last THEN "scan_next" ELSE "scan_save"])
    /\ errors' = IF ok THEN errors ELSE errors + 1
    /\ UNCHANGED <<smuckles_users, smuckles_log, smuckles_bonk_log, smuckles_reminders,
                   gateVars, now, today, sent, started>>

\* db_pool.acquire() raises inside save_spotify_links, outside its try:
\* paposcan's except Exception answers "Unexpected error" and returns.  The
\* message in hand had left the iterator.
scan_save_raise(p) ==
    /\ h[p].pc = "scan_save" /\ h[p].todo = h[p].urls
    /\ Set(p, [pc |-> "done", reply |-> "unexpected", page |-> Tail(h[p].page)])
    /\ errors' = errors + 1
    /\ UNCHANGED <<dbVars, gateVars, now, today, sent, started>>

\* The iterator is exhausted: the followup with scanned, matched_msgs, saved_urls.
scan_report(p) ==
    /\ h[p].pc = "scan_next" /\ h[p].page = <<>> /\ h[p].hist = <<>>
    /\ Set(p, [pc |-> "done", reply |-> "report"])
    /\ UNCHANGED <<dbVars, gateVars, now, today, sent, errors, started>>

\* The counts the scan's followup carries: the three counters in the final
\* report, none in the three error messages.
scan_followup(p) ==
    IF h[p].reply = "report"
    THEN <<h[p].scanned, h[p].matched_msgs, h[p].saved_urls>>
    ELSE <<>>

\* ------------------------------------------------------- ENVIRONMENT
\* The coroutine has returned or raised: its slot is free again.
Return(p) ==
    /\ h[p].pc \in {"done", "rejected", "raised"}
    /\ h' = [h EXCEPT ![p] = IdleSlot]
    /\ UNCHANGED <<dbVars, gateVars, now, today, sent, errors, started>>

\* The event loop's clock advances by d seconds.
Tick(d) ==
    /\ now + d <= MaxTime
    /\ now' = now + d
    /\ UNCHANGED <<dbVars, gateVars, today, h, sent, errors, started>>

\* The clock advances by d seconds, up to limit.
Wait(d, limit) ==
    /\ now + d <= limit
    /\ now' = now + d
    /\ UNCHANGED <<dbVars, gateVars, today, h, sent, errors, started>>

\* The database's date changes.
NewDay ==
    /\ today < MaxDay
    /\ today' = today + 1
    /\ UNCHANGED <<dbVars, gateVars, now, h, sent, errors, started>>

\* ------------------------------------------------------------- INPUTS
Guilds == {1, 2}

Users == {ADMIN_USER_ID, TARGET_USER_ID, AUTHORIZED_GIVER_ID, OTHER_USER_ID,
          SECOND_USER_ID}

\* Amounts a command may carry: negative, zero, no multiple, a multiple, the jackpot.
Amounts == {-MULTIPLE_OF, 0, 3, MULTIPLE_OF, JACKPOT}

\* A message whose text is "bonk".
BonkMsg(author, guild) ==
    [id |-> 0, author |-> author, guild |-> guild, channel |-> 1,
     content |-> <<"bonk">>, embeds |-> <<>>, mentions |-> {}]

\* The target posts two links, the first one twice.
MsgA == [id |-> 1, author |-> TARGET_USER_ID, guild |-> 1, channel |-> 1,
         content |-> <<"sp_a", "hi", "sp_b", "sp_a">>, embeds |-> <<>>,
         mentions |-> {}]

\* The target posts a link that Discord previews: it is in the embed only.
MsgB == [id |-> 2, author |-> TARGET_USER_ID, guild |-> 1, channel |-> 1,
         content |-> <<"hi">>,
         embeds |-> <<[url |-> <<"sp_a">>, description |-> <<>>,
                       title |-> <<"sp_a">>, fields |-> <<>>]>>,
         mentions |-> {}]

\* Somebody else posts a link.
MsgC == [id |-> 3, author |-> OTHER_USER_ID, guild |-> 1, channel |-> 1,
         content |-> <<"sp_c">>, embeds |-> <<>>, mentions |-> {}]

Messages == {MsgA, MsgB, MsgC}

\* The messages of S, newest (largest id) first.
RECURSIVE NewestFirst(_)
NewestFirst(S) ==
    IF S = {} THEN <<>>
    ELSE LET m == CHOOSE x \in S : \A y \in S : y.id <= x.id
         IN  <<m>> \o NewestFirst(S \ {m})

\* What a channel's history may hold.
Histories == {NewestFirst(S) : S \in {T \in SUBSET Messages : Cardinality(T) <= MaxHist}}

\* n bonks of today by OTHER_USER_ID in guild 1, as an earlier run left them.
Preloaded(n) ==
    [i \in 1 .. n |-> [guild_id |-> 1, bonker_id |-> OTHER_USER_ID,
                       target_id |-> TARGET_USER_ID, day |-> 0]]

\* Bonks an earlier run left: one of nine days ago, and of today two by
\* OTHER_USER_ID in guild 1 around one by SECOND_USER_ID and one in guild 2.
PreloadedMixed ==
    LET row(g, b, d) == [guild_id |-> g, bonker_id |-> b,
                         target_id |-> TARGET_USER_ID, day |-> d]
    IN  <<row(1, OTHER_USER_ID, -9), row(1, OTHER_USER_ID, 0),
          row(1, SECOND_USER_ID, 0), row(2, OTHER_USER_ID, 0),
          row(1, OTHER_USER_ID, 0)>>

\* A message that mentions the bot and says "remind me <note>".
RemindMsg(author, guild) ==
    [id |-> 7, author |-> author, guild |-> guild, channel |-> 1,
     content |-> <<"remind", "me", "note">>, embeds |-> <<>>,
     mentions |-> {BOT_USER_ID}]

\* Reminders an earlier run left: two by OTHER_USER_ID in guild 1 around one
\* by SECOND_USER_ID there and one by OTHER_USER_ID in guild 2.
PreloadedReminders ==
    LET row(g, a, id) == [guild_id |-> g, author_id |-> a, message_id |-> id,
                          note |-> <<"note">>]
    IN  <<row(1, OTHER_USER_ID, 1), row(1, SECOND_USER_ID, 2),
          row(2, OTHER_USER_ID, 3), row(1, OTHER_USER_ID, 4)>>

\* The sequences over S of length up to n.
SeqsUpTo(S, n) == UNION {[1 .. k -> S] : k \in 0 .. n}

\* Embeds with a link or none in the url, two links or none in the
\* description, a link or none in the title, and one field or none.
Embeds ==
    [url : {<<>>, <<"sp_a">>}, description : {<<>>, <<"sp_b", "sp_a">>},
     title : {<<>>, <<"sp_c">>},
     fields : {<<>>, <<[name |-> <<"sp_c">>, value |-> <<"sp_b">>]>>}]

\* Messages of the target for the extraction: any text of up to MaxText
\* tokens and up to MaxEmbeds embeds.
ExtractInputs ==
    {[id |-> 1, author |-> TARGET_USER_ID, guild |-> 1, channel |-> 1,
      content |-> c, embeds |-> e, mentions |-> {}] :
       c \in SeqsUpTo({"sp_a", "sp_b", "hi"}, MaxText),
       e \in SeqsUpTo(Embeds, MaxEmbeds)} \ {NoMsg}

\* What /bonktop and /bonkremove may be given.
Windows == {"all", "day", "week", "month"}
Counts == {0, 1, 2, 3, 1001}
Limits == {0, 1, 10}

\* --------------------------------------------------------------- INIT
\* The tables as db_init finds them (CREATE TABLE IF NOT EXISTS keeps the rows
\* of earlier runs: here some bonks of today), the cooldown dicts empty, the
\* monotonic clock at clock0.
InitWith(bonks, clock0) ==
    /\ smuckles_users = EmptyDict
    /\ smuckles_log = <<>>
    /\ smuckles_bonk_log \in {Preloaded(n) : n \in bonks}
    /\ smuckles_spotify_links = <<>>
    /\ smuckles_reminders = <<>>
    /\ last_give_ts = EmptyDict
    /\ last_bonk_ts = EmptyDict
    /\ now \in clock0
    /\ today = 0
    /\ h = [p \in Procs |-> IdleSlot]
    /\ sent = [bonk |-> 0, meme |-> 0, penalty |-> 0, reminder |-> 0]
    /\ errors = 0
    /\ started = 0


\* --------------------------------------------------------------- NEXT
\* The awaits of give and take.
LedgerSteps(p) ==
    \/ give_adjust(p)
    \/ give_log(p)
    \/ give_total(p)
    \/ give_raise(p)

\* The awaits of on_message's bonk section.
BonkSteps(p) ==
    \/ bonk_log(p)
    \/ bonk_count(p)
    \/ bonk_streak(p)
    \/ penalty_adjust(p)
    \/ penalty_log(p)
    \/ penalty_total(p)
    \/ bonk_raise(p)

\* Concurrent handlers on the ledger, one per slot: gives and takes of valid
\* amounts by the two authorized actors, and bonks of a day that has
\* BONK_PENALTY_STEP - 1 of them already, interleaved at their awaits.
Init == InitWith({BONK_PENALTY_STEP - 1}, {GIVE_COOLDOWN_SECONDS})

Next ==
    \/ \E p \in Procs, g \in Guilds, u \in {AUTHORIZED_GIVER_ID, ADMIN_USER_ID} :
         give(p, g, u, TARGET_USER_ID, MULTIPLE_OF)
    \/ \E p \in Procs : take(p, 1, ADMIN_USER_ID, TARGET_USER_ID, JACKPOT)
    \/ \E p \in Procs, b \in {OTHER_USER_ID, SECOND_USER_ID} :
         on_message(p, BonkMsg(b, 1), TRUE)
    \/ \E p \in Procs : LedgerSteps(p)
    \/ \E p \in Procs : BonkSteps(p)
    \/ \E p \in Procs : capture_extract(p)
    \/ \E p \in Procs : on_message_reminder(p, TRUE)

Spec == Init /\ [][Next]_vars


\* One handler at a time, any actor, member and amount: the checks of give
\* and take.  The clock advances by half a give cooldown.
InitSeq == InitWith({0}, {0})

NextSeq ==
    \/ \E u \in Users, m \in {TARGET_USER_ID, OTHER_USER_ID}, a \in Amounts :
         started < MaxSeqOps /\ give(1, 1, u, m, a)
    \/ \E u \in Users, m \in {TARGET_USER_ID, OTHER_USER_ID}, a \in Amounts :
         started < MaxSeqOps /\ take(1, 1, u, m, a)
    \/ give_adjust(1)
    \/ give_log(1)
    \/ give_total(1)
    \/ Return(1)
    \/ Tick(GIVE_COOLDOWN_SECONDS \div 2)

SpecSeq == InitSeq /\ [][NextSeq]_vars

\* One handler at a time, the clock advancing second by second: the two
\* cooldown gates, for two givers and two bonkers.
InitGate == InitWith({0}, {0})

NextGate ==
    \/ \E u \in {AUTHORIZED_GIVER_ID, ADMIN_USER_ID} :
         started < MaxSeqOps /\ give(1, 1, u, TARGET_USER_ID, MULTIPLE_OF)
    \/ \E b \in {AUTHORIZED_GIVER_ID, OTHER_USER_ID} :
         started < MaxSeqOps /\ on_message(1, BonkMsg(b, 1), TRUE)
    \/ give_adjust(1)
    \/ give_log(1)
    \/ give_total(1)
    \/ bonk_log(1)
    \/ bonk_count(1)
    \/ bonk_streak(1)
    \/ capture_extract(1)
    \/ on_message_reminder(1, TRUE)
    \/ Return(1)
    \/ Tick(1)

SpecGate == InitGate /\ [][NextGate]_vars

\* Live capture and backfill scans, one per slot, interleaved at their awaits,
\* with the database and Discord answering every call.
InitLinks == InitWith({0}, {0})

NextLinks ==
    \/ \E p \in Procs, m \in Messages : on_message(p, m, TRUE)
    \/ \E p \in Procs, u \in {ADMIN_USER_ID, OTHER_USER_ID}, hist \in Histories,
          perms \in BOOLEAN :
         paposcan(p, 1, u, 1, hist, 1000, perms)
    \/ \E p \in Procs : capture_extract(p)
    \/ \E p \in Procs : capture_insert(p, TRUE)
    \/ \E p \in Procs : on_message_reminder(p, TRUE)
    \/ \E p \in Procs : scan_fetch(p)
    \/ \E p \in Procs : scan_message(p)
    \/ \E p \in Procs : scan_insert(p, TRUE)
    \/ \E p \in Procs : scan_report(p)

SpecLinks == InitLinks /\ [][NextLinks]_vars

\* One member bonks the target MaxBonks times in guild 1 on one day, one
\* handler after the other, a cooldown apart, with the database and Discord
\* answering every call.
InitBonk == InitWith({0}, {BONK_COOLDOWN_SECONDS})

NextBonk ==
    \/ started < MaxBonks /\ on_message(1, BonkMsg(OTHER_USER_ID, 1), TRUE)
    \/ bonk_log(1)
    \/ bonk_count(1)
    \/ bonk_streak(1)
    \/ penalty_adjust(1)
    \/ penalty_log(1)
    \/ penalty_total(1)
    \/ capture_extract(1)
    \/ on_message_reminder(1, TRUE)
    \/ Return(1)
    \/ Wait(BONK_COOLDOWN_SECONDS, BONK_COOLDOWN_SECONDS * (MaxBonks + 1))

SpecBonk == InitBonk /\ [][NextBonk]_vars

\* One handler at a time over a bonk log of several members, guilds and
\* days: bonks, removals and the two leaderboards, while the clock and the
\* date advance.
InitDay ==
    /\ smuckles_users = EmptyDict
    /\ smuckles_log = <<>>
    /\ smuckles_bonk_log = PreloadedMixed
    /\ smuckles_spotify_links = <<>>
    /\ smuckles_reminders = <<>>
    /\ last_give_ts = EmptyDict
    /\ last_bonk_ts = EmptyDict
    /\ now = GIVE_COOLDOWN_SECONDS
    /\ today = 0
    /\ h = [p \in Procs |-> IdleSlot]
    /\ sent = [bonk |-> 0, meme |-> 0, penalty |-> 0, reminder |-> 0]
    /\ errors = 0
    /\ started = 0

NextDay ==
    \/ \E g \in Guilds, b \in {OTHER_USER_ID, SECOND_USER_ID} :
         started < MaxSeqOps /\ on_message(1, BonkMsg(b, g), TRUE)
    \/ \E g \in Guilds, u \in {ADMIN_USER_ID, OTHER_USER_ID},
          m \in {OTHER_USER_ID, SECOND_USER_ID}, c \in Counts, w \in Windows :
         started < MaxSeqOps /\ bonkremove(1, g, u, m, c, w)
    \/ \E g \in Guilds, l \in Limits, w \in Windows :
         started < MaxSeqOps /\ bonktop(1, g, OTHER_USER_ID, l, w)
    \/ \E g \in Guilds, l \in Limits :
         started < MaxSeqOps /\ sandia(1, g, OTHER_USER_ID, l)
    \/ \E g \in Guilds :
         started < MaxSeqOps /\ give(1, g, ADMIN_USER_ID, TARGET_USER_ID, MULTIPLE_OF)
    \/ give_adjust(1)
    \/ give_log(1)
    \/ give_total(1)
    \/ bonk_log(1)
    \/ bonk_count(1)
    \/ bonk_streak(1)
    \/ capture_extract(1)
    \/ on_message_reminder(1, TRUE)
    \/ bonkremove_delete(1)
    \/ bonktop_query(1)
    \/ sandia_query(1)
    \/ Return(1)
    \/ NewDay

SpecDay == InitDay /\ [][NextDay]_vars

\* extract_spotify_from_message on every message of ExtractInputs.
InitExtract ==
    /\ smuckles_users = EmptyDict
    /\ smuckles_log = <<>>
    /\ smuckles_bonk_log = <<>>
    /\ smuckles_spotify_links = <<>>
    /\ smuckles_reminders = <<>>
    /\ last_give_ts = EmptyDict
    /\ last_bonk_ts = EmptyDict
    /\ now = 0
    /\ today = 0
    /\ \E m \in ExtractInputs :
         h = [p \in Procs |-> IF p = 1 THEN [IdleSlot EXCEPT !.msg = m] ELSE IdleSlot]
    /\ sent = [bonk |-> 0, meme |-> 0, penalty |-> 0, reminder |-> 0]
    /\ errors = 0
    /\ started = 0

NextExtract == extract(1)

SpecExtract == InitExtract /\ [][NextExtract]_vars

\* One handler at a time, live capture or a scan, where every await on the
\* database or on Discord may raise.
InitScan == InitWith({0}, {0})

NextScan ==
    \/ \E m \in Messages : started < MaxSeqOps /\ on_message(1, m, TRUE)
    \/ \E hist \in Histories :
         started < MaxSeqOps /\ paposcan(1, 1, ADMIN_USER_ID, 1, hist, 1000, TRUE)
    \/ capture_extract(1)
    \/ \E ok \in BOOLEAN : capture_insert(1, ok)
    \/ capture_raise(1)
    \/ on_message_reminder(1, TRUE)
    \/ scan_fetch(1)
    \/ scan_fetch_raise(1)
    \/ scan_message(1)
    \/ \E ok \in BOOLEAN : scan_insert(1, ok)
    \/ scan_save_raise(1)
    \/ scan_report(1)
    \/ Return(1)

SpecScan == InitScan /\ [][NextScan]_vars

\* One give after the other by the admin and by the authorized giver, to the
\* target and of valid amounts, the clock advancing by a quarter of the give
\* cooldown.
InitGive == InitWith({0}, {0})

NextGive ==
    \/ \E u \in {ADMIN_USER_ID, AUTHORIZED_GIVER_ID}, a \in {MULTIPLE_OF, JACKPOT} :
         started < MaxSeqOps + 1 /\ give(1, 1, u, TARGET_USER_ID, a)
    \/ give_adjust(1)
    \/ give_log(1)
    \/ give_total(1)
    \/ Return(1)
    \/ Tick(GIVE_COOLDOWN_SECONDS \div 4)

SpecGive == InitGive /\ [][NextGive]_vars

\* One bonk after the other by two members, on a day two bonks short of the
\* penalty step, the clock advancing second by second over three bonk
\* cooldowns.
InitCooldown == InitWith({BONK_PENALTY_STEP - 2}, {BONK_COOLDOWN_SECONDS})

NextCooldown ==
    \/ \E b \in {OTHER_USER_ID, SECOND_USER_ID} :
         started < MaxSeqOps + 1 /\ on_message(1, BonkMsg(b, 1), TRUE)
    \/ bonk_log(1)
    \/ bonk_count(1)
    \/ bonk_streak(1)
    \/ penalty_adjust(1)
    \/ penalty_log(1)
    \/ penalty_total(1)
    \/ capture_extract(1)
    \/ on_message_reminder(1, TRUE)
    \/ Return(1)
    \/ Wait(1, 3 * BONK_COOLDOWN_SECONDS)

SpecCooldown == InitCooldown /\ [][NextCooldown]_vars

\* Handlers on the reminder bank of two guilds, one per slot and interleaved
\* at their awaits: reminders saved from messages, the author's clear and the
\* bulk wipe asked for by the admin and by another member.
InitReminders ==
    /\ smuckles_users = EmptyDict
    /\ smuckles_log = <<>>
    /\ smuckles_bonk_log = <<>>
    /\ smuckles_spotify_links = <<>>
    /\ smuckles_reminders = PreloadedReminders
    /\ last_give_ts = EmptyDict
    /\ last_bonk_ts = EmptyDict
    /\ now = 0
    /\ today = 0
    /\ h = [p \in Procs |-> IdleSlot]
    /\ sent = [bonk |-> 0, meme |-> 0, penalty |-> 0, reminder |-> 0]
    /\ errors = 0
    /\ started = 0

NextReminders ==
    \/ \E p \in Procs, g \in Guilds :
         started < MaxSeqOps /\ on_message(p, RemindMsg(OTHER_USER_ID, g), TRUE)
    \/ \E p \in Procs, g \in Guilds, u \in {OTHER_USER_ID, SECOND_USER_ID} :
         started < MaxSeqOps /\ clearmyreminders(p, g, u)
    \/ \E p \in Procs, g \in Guilds, u \in {ADMIN_USER_ID, OTHER_USER_ID} :
         started < MaxSeqOps /\ clearemindbank(p, g, u)
    \/ \E p \in Procs : capture_extract(p)
    \/ \E p \in Procs : on_message_reminder(p, TRUE)
    \/ \E p \in Procs : clearmyreminders_delete(p)
    \/ \E p \in Procs : clearemindbank_delete(p)
    \/ \E p \in Procs : Return(p)

SpecReminders == InitReminders /\ [][NextReminders]_vars

\* One handler at a time on the accounts of two guilds: gives and takes by
\* any kind of actor to the target or to another member, the bonk that
\* reaches the penalty step, and reads of any account's balance.
InitAccounts == InitWith({BONK_PENALTY_STEP - 1}, {GIVE_COOLDOWN_SECONDS})

NextAccounts ==
    \/ \E g \in Guilds, u \in {ADMIN_USER_ID, AUTHORIZED_GIVER_ID, OTHER_USER_ID},
          m \in {TARGET_USER_ID, OTHER_USER_ID}, a \in {3, MULTIPLE_OF} :
         started < MaxSeqOps /\ give(1, g, u, m, a)
    \/ \E g \in Guilds, u \in {ADMIN_USER_ID, AUTHORIZED_GIVER_ID, OTHER_USER_ID},
          m \in {TARGET_USER_ID, OTHER_USER_ID}, a \in {3, MULTIPLE_OF} :
         started < MaxSeqOps /\ take(1, g, u, m, a)
    \/ \E b \in {TARGET_USER_ID, OTHER_USER_ID} :
         started < MaxSeqOps /\ on_message(1, BonkMsg(b, 1), TRUE)
    \/ \E g \in Guilds, u \in {TARGET_USER_ID, OTHER_USER_ID} : get_points_call(1, g, u)
    \/ \E g \in Guilds : started < MaxSeqOps /\ sandia(1, g, OTHER_USER_ID, 10)
    \/ give_adjust(1)
    \/ give_log(1)
    \/ give_total(1)
    \/ bonk_log(1)
    \/ bonk_count(1)
    \/ bonk_streak(1)
    \/ penalty_adjust(1)
    \/ penalty_log(1)
    \/ penalty_total(1)
    \/ capture_extract(1)
    \/ on_message_reminder(1, TRUE)
    \/ sandia_query(1)
    \/ Return(1)

SpecAccounts == InitAccounts /\ [][NextAccounts]_vars


\* ============================================================== CLAIMS
\* The balance of (guild, account) against the sum of its ledger rows.
Balanced(g, u) == get_points(g, u) = SumDelta(LedgerOf(g, u))

\* Handlers that completed a give or a take.
Completed == {p \in Procs : h[p].cmd \in {"give", "take"} /\ h[p].pc = "done"}

RECURSIVE SumOfDeltas(_)
SumOfDeltas(S) ==
    IF S = {} THEN 0
    ELSE LET p == CHOOSE x \in S : TRUE IN h[p].delta + SumOfDeltas(S \ {p})

\* C1: the balance update and the ledger append of a give, take or penalty
\* are one atomic unit: in every reachable state every account's balance
\* equals the sum of its ledger rows' deltas.
C1_BalanceAndLedgerAtomic ==
    \A g \in Guilds, u \in Users : Balanced(g, u)

\* C2: when every give, take and penalty so far ran to completion (nothing
\* raised, no handler stands between its adjust_points and its log_txn), the
\* balance of every (guild, account) equals the sum of its ledger rows' deltas.
C2_LedgerConsistent ==
    (errors = 0 /\ \A p \in Procs : h[p].pc # "log_txn")
      => \A g \in Guilds, u \in Users : Balanced(g, u)

\* Two handlers completed on the target's account in guild 1, a give and a take.
C2_Witness ==
    /\ errors = 0
    /\ \A p \in Procs : h[p].pc # "log_txn"
    /\ \E p, q \in Procs :
         /\ h[p].pc = "done" /\ h[p].cmd = "give" /\ h[p].guild = 1
         /\ h[q].pc = "done" /\ h[q].cmd = "take" /\ h[q].guild = 1
    /\ get_points(1, TARGET_USER_ID) = MULTIPLE_OF - JACKPOT

\* C3: when all the handlers ran a give or take concurrently and each
\* completed, every account's balance is the sum of their deltas and its
\* ledger holds one row per handler: no update is lost.  For N gives of one
\* step each on one account that is a balance of N steps and N rows.
C3_NoLostUpdate ==
    Completed = Procs =>
      \A g \in Guilds :
        LET on == {p \in Procs : h[p].guild = g} IN
        /\ get_points(g, TARGET_USER_ID) = SumOfDeltas(on)
        /\ Len(LedgerOf(g, TARGET_USER_ID)) = Cardinality(on)

\* Every slot gave one step to the target in guild 1, and the last two
\* adjustments were in flight together.
C3_Witness ==
    /\ \A p \in Procs :
         /\ h[p].pc = "done" /\ h[p].cmd = "give" /\ h[p].guild = 1
         /\ h[p].amount = MULTIPLE_OF
    /\ \E p \in Procs : h[p].total - h[p].before > MULTIPLE_OF
    /\ get_points(1, TARGET_USER_ID) = NProcs * MULTIPLE_OF
    /\ Len(smuckles_log) = NProcs

\* A give or take that has passed its checks or been rejected by them.
Checked(p) == h[p].cmd \in {"give", "take"} /\ h[p].pc # "idle"

Authorized(p) == h[p].user = AUTHORIZED_GIVER_ID \/ h[p].user = ADMIN_USER_ID
OnTarget(p) == h[p].member = TARGET_USER_ID
GoodAmount(p) ==
    h[p].amount > 0 /\ (h[p].amount % MULTIPLE_OF = 0 \/ h[p].amount = JACKPOT)

\* C4: give and take check authorization, then the target, then the amount,
\* then (give) the cooldown, and the first failing check decides the
\* rejection.
C4_ValidationOrder ==
    \A p \in Procs : Checked(p) =>
      /\ ~Authorized(p) => h[p].reply = "unauthorized"
      /\ (Authorized(p) /\ ~OnTarget(p)) => h[p].reply = "bad_target"
      /\ (Authorized(p) /\ OnTarget(p) /\ ~GoodAmount(p)) => h[p].reply = "bad_amount"
      /\ h[p].reply = "cooldown" =>
           (h[p].cmd = "give" /\ Authorized(p) /\ OnTarget(p) /\ GoodAmount(p))

\* An unauthorized actor with a wrong target and an invalid amount is rejected
\* for authorization.
C4_Witness ==
    \E p \in Procs :
      /\ Checked(p) /\ ~Authorized(p) /\ ~OnTarget(p) /\ ~GoodAmount(p)
      /\ h[p].pc = "rejected" /\ h[p].reply = "unauthorized"

\* C5: a step that rejects a give or take changes no table and no cooldown
\* timestamp and sends nothing to a channel.
C5_RejectionChangesNothing ==
    [][\A p \in Procs :
         (h[p].pc = "idle" /\ h'[p].pc = "rejected" /\ h'[p].cmd \in {"give", "take"})
           => UNCHANGED <<dbVars, gateVars, sent>>]_vars

\* A give rejected for cooldown, the giver's timestamp still the earlier one.
C5_Witness ==
    \E p \in Procs :
      /\ h[p].pc = "rejected" /\ h[p].cmd = "give" /\ h[p].reply = "cooldown"
      /\ h[p].user \in DOMAIN last_give_ts
      /\ last_give_ts[h[p].user] < now

\* C6: by an authorized actor on the target, the amount check passes exactly
\* when the amount is positive and a multiple of MULTIPLE_OF or the JACKPOT.
C6_AmountShape ==
    \A p \in Procs : (Checked(p) /\ Authorized(p) /\ OnTarget(p)) =>
      (h[p].reply # "bad_amount" <=> GoodAmount(p))

\* The jackpot given.
C6_Witness ==
    \E p \in Procs :
      /\ h[p].cmd = "give" /\ h[p].pc = "done" /\ h[p].reply = "ok"
      /\ h[p].amount = JACKPOT /\ get_points(1, TARGET_USER_ID) >= JACKPOT


\* Handler p starts in this step, with command c.
Starts(p, c) == h[p].pc = "idle" /\ h'[p].pc # "idle" /\ h'[p].cmd = c

\* C7: a give (cooldown 8) by a giver with a recorded timestamp is rejected
\* when less than the cooldown has elapsed since it, the timestamp kept, and
\* allowed when the cooldown or more has elapsed, the timestamp becoming the
\* current time in the same step; likewise a bonk (cooldown 3).  So two
\* allowed checks of one actor are never closer than the cooldown.
C7_CooldownGate ==
    [][\A p \in Procs :
         /\ (Starts(p, "give") /\ h'[p].user = AUTHORIZED_GIVER_ID
               /\ AUTHORIZED_GIVER_ID \in DOMAIN last_give_ts) =>
              LET u == AUTHORIZED_GIVER_ID IN
              IF now - last_give_ts[u] < GIVE_COOLDOWN_SECONDS
              THEN h'[p].reply = "cooldown" /\ h'[p].pc = "rejected"
                     /\ last_give_ts' = last_give_ts
              ELSE h'[p].pc = "adjust" /\ last_give_ts'[u] = now
         /\ (Starts(p, "message") /\ h'[p].user \in DOMAIN last_bonk_ts) =>
              LET u == h'[p].user IN
              IF now - last_bonk_ts[u] < BONK_COOLDOWN_SECONDS
              THEN h'[p].reply = "cooldown" /\ h'[p].pc = "spotify"
                     /\ last_bonk_ts' = last_bonk_ts
              ELSE h'[p].pc = "log_bonk" /\ last_bonk_ts'[u] = now
         /\ \A u \in DOMAIN last_give_ts :
              last_give_ts'[u] # last_give_ts[u] =>
                last_give_ts'[u] - last_give_ts[u] >= GIVE_COOLDOWN_SECONDS
         /\ \A u \in DOMAIN last_bonk_ts :
              last_bonk_ts'[u] # last_bonk_ts[u] =>
                last_bonk_ts'[u] - last_bonk_ts[u] >= BONK_COOLDOWN_SECONDS]_vars

\* The giver's second give is allowed exactly one cooldown after the first:
\* the first was allowed at 8 at the earliest, this one at 16.
C7_Witness ==
    /\ now = 2 * GIVE_COOLDOWN_SECONDS
    /\ \E i \in DOMAIN smuckles_log : smuckles_log[i].actor_id = AUTHORIZED_GIVER_ID
    /\ h[1].cmd = "give" /\ h[1].pc = "adjust" /\ h[1].user = AUTHORIZED_GIVER_ID
    /\ last_give_ts[AUTHORIZED_GIVER_ID] = now

\* C8: a give's check leaves the bonk timestamps, and with them every
\* actor's bonk verdict, as they were; a bonk's check does the same for the
\* give timestamps; and a check changes no timestamp of another actor.
C8_GatesIndependent ==
    [][\A p \in Procs :
         /\ Starts(p, "give") =>
              /\ last_bonk_ts' = last_bonk_ts
              /\ \A u \in Users : bonk_on_cooldown(u)' = bonk_on_cooldown(u)
         /\ Starts(p, "message") =>
              /\ last_give_ts' = last_give_ts
              /\ \A u \in Users : on_cooldown(u)' = on_cooldown(u)
         /\ (Starts(p, "give") \/ Starts(p, "message")) =>
              \A u \in Users \ {h'[p].user} :
                /\ DictGet(last_give_ts', u, -1) = DictGet(last_give_ts, u, -1)
                /\ DictGet(last_bonk_ts', u, -1) = DictGet(last_bonk_ts, u, -1)]_vars

\* The giver holds a give timestamp and a different bonk timestamp, and the
\* admin a give timestamp of his own.
C8_Witness ==
    /\ AUTHORIZED_GIVER_ID \in DOMAIN last_give_ts
    /\ AUTHORIZED_GIVER_ID \in DOMAIN last_bonk_ts
    /\ ADMIN_USER_ID \in DOMAIN last_give_ts
    /\ last_give_ts[AUTHORIZED_GIVER_ID] # last_bonk_ts[AUTHORIZED_GIVER_ID]
    /\ last_give_ts[AUTHORIZED_GIVER_ID] # last_give_ts[ADMIN_USER_ID]

\* C9: no two rows of smuckles_spotify_links share (guild, owner, message,
\* URL), however live capture and backfill scans interleave.
C9_ArtifactsUnique ==
    \A i, j \in DOMAIN smuckles_spotify_links :
      LinkKey(smuckles_spotify_links[i]) = LinkKey(smuckles_spotify_links[j]) => i = j

\* Live capture and a scan of the same message raced: each inserted one of
\* its two links and found the other one there, and both ended without error.
C9_Witness ==
    \E p, q \in Procs :
      /\ h[p].cmd = "message" /\ h[p].msg = MsgA /\ h[p].pc = "done"
      /\ h[q].cmd = "scan" /\ h[q].pc = "done" /\ h[q].reply = "report"
      /\ h[q].scanned = 1 /\ h[q].matched_msgs = 1 /\ h[q].inserted = 1
      /\ Len(smuckles_spotify_links) = 2
      /\ errors = 0

\* C10: with no exception raised, the count of saved URLs a completed scan
\* reports is the number of rows the scan inserted: URLs that live capture
\* or an earlier scan stored before are not counted again.
C10_ScanCountsInserted ==
    \A p \in Procs :
      (errors = 0 /\ h[p].cmd = "scan" /\ h[p].pc = "done" /\ h[p].reply = "report")
        => h[p].saved_urls = h[p].inserted


\* A scan that passed its checks and ended.
ScanEnded(p) ==
    h[p].cmd = "scan" /\ h[p].pc = "done"
      /\ h[p].reply \in {"report", "error", "unexpected"}

\* C11: a scan whose history read failed after it had scanned messages ends
\* with a followup that carries the scanned, matched and saved counts it had
\* reached.
C11_PartialReport ==
    \A p \in Procs :
      (ScanEnded(p) /\ h[p].reply = "error" /\ h[p].scanned > 0)
        => scan_followup(p) = <<h[p].scanned, h[p].matched_msgs, h[p].saved_urls>>

\* C12: no step of a scan or of live capture, a failing one included, removes
\* or changes a stored link row: the table only grows at its end.
C12_RowsPersist ==
    [][/\ Len(smuckles_spotify_links') >= Len(smuckles_spotify_links)
       /\ \A i \in DOMAIN smuckles_spotify_links :
            smuckles_spotify_links'[i] = smuckles_spotify_links[i]]_vars

\* A scan inserted a row, then its next read failed: the row is there.
C12_Witness ==
    \E p \in Procs :
      /\ ScanEnded(p) /\ h[p].reply = "error" /\ h[p].inserted > 0
      /\ \E i \in DOMAIN smuckles_spotify_links :
           smuckles_spotify_links[i].message_id = h[p].msg.id

\* C13: a scan whose history reads all succeeded ends only after it has
\* scanned every message of its window, whatever failed while a message's
\* links were saved.
C13_IngestFailureSwallowed ==
    \A p \in Procs :
      (ScanEnded(p) /\ h[p].reply # "error") => h[p].scanned = Len(h[p].window)


\* C14: with every bonk handled to its end and nothing raised, n bonks of one
\* day in one guild have sent n \div BONK_STREAK_STEP streak notifications and
\* applied n \div BONK_PENALTY_STEP penalties, each one ledger row of
\* -BONK_PENALTY_AMOUNT on the target's balance: 2 notifications and 1
\* penalty of 5 for 20 bonks.
C14_ThresholdFiring ==
    LET n == Len(smuckles_bonk_log) IN
    (errors = 0 /\ \A p \in Procs : h[p].pc \in {"idle", "done"}) =>
      /\ sent.meme = n \div BONK_STREAK_STEP
      /\ sent.penalty = n \div BONK_PENALTY_STEP
      /\ get_points(1, TARGET_USER_ID) = -BONK_PENALTY_AMOUNT * (n \div BONK_PENALTY_STEP)
      /\ Len(smuckles_log) = n \div BONK_PENALTY_STEP
      /\ \A i \in DOMAIN smuckles_log :
           /\ smuckles_log[i].delta = -BONK_PENALTY_AMOUNT
           /\ smuckles_log[i].target_id = TARGET_USER_ID

\* Twenty bonks handled: two notifications, one penalty, a balance of -5.
C14_Witness ==
    /\ errors = 0 /\ \A p \in Procs : h[p].pc \in {"idle", "done"}
    /\ Len(smuckles_bonk_log) = 20
    /\ sent.meme = 2 /\ sent.penalty = 1
    /\ get_points(1, TARGET_USER_ID) = -5 /\ Len(smuckles_log) = 1

\* C18: the step that checks the thresholds on the count just computed sends
\* (or tries to send) the streak notification exactly at a multiple of
\* BONK_STREAK_STEP, and goes on to the penalty exactly at a multiple of
\* BONK_PENALTY_STEP, whatever the other check did.
C18_ChecksIndependent ==
    [][\A p \in Procs :
         (h[p].pc = "streak" /\ h'[p].pc # "streak") =>
           LET c == h[p].count_today IN
           /\ c % BONK_STREAK_STEP = 0 =>
                (sent'.meme = sent.meme + 1 \/ errors' = errors + 1)
           /\ c % BONK_STREAK_STEP # 0 => sent'.meme = sent.meme
           /\ h'[p].pc = "adjust" <=> c % BONK_PENALTY_STEP = 0]_vars


\* The bonk rows a removal for (guild g, actor b, window w) is about.
Removable(g, b, w) ==
    {i \in DOMAIN smuckles_bonk_log :
       LET r == smuckles_bonk_log[i] IN
       /\ r.guild_id = g /\ r.bonker_id = b /\ r.target_id = TARGET_USER_ID
       /\ w = "day" => r.day = today
       /\ w = "week" => r.day >= today - 7}

\* The index of the n-th row of the bonk log that is not in D.
NthKept(n, D) ==
    CHOOSE i \in DOMAIN smuckles_bonk_log \ D :
      Cardinality({j \in DOMAIN smuckles_bonk_log \ D : j < i}) = n - 1

\* C15: the step of /bonkremove that deletes, asked for c rows where m match
\* (guild, actor, target, window), deletes min(c, m) rows, all matching and
\* none older than a matching row it keeps, reports min(c, m), raises
\* nothing, and leaves every other row where it was.
C15_RemoveRecent ==
    [][\A p \in Procs :
         (h[p].cmd = "bonkremove" /\ h[p].pc = "remove" /\ h'[p].pc # "remove") =>
           LET match == Removable(h[p].guild, h[p].member, h[p].win)
               m == Cardinality(match)
               k == IF h[p].amount < m THEN h[p].amount ELSE m
           IN  /\ h'[p].pc = "done" /\ h'[p].removed = k /\ errors' = errors
               /\ \E D \in SUBSET match :
                    /\ Cardinality(D) = k
                    /\ \A i \in D, j \in match \ D : j < i
                    /\ smuckles_bonk_log' =
                         [n \in 1 .. Len(smuckles_bonk_log) - k |->
                            smuckles_bonk_log[NthKept(n, D)]]]_vars

\* Three of OTHER_USER_ID's bonks of today in guild 1 were to be removed and
\* two were there: both are gone, and the old one, the other member's and the
\* other guild's are kept.
C15_Witness ==
    \E p \in Procs :
      /\ h[p].cmd = "bonkremove" /\ h[p].pc = "done" /\ h[p].reply = "removed"
      /\ h[p].amount = 3 /\ h[p].removed = 2 /\ h[p].win = "day"
      /\ h[p].guild = 1 /\ h[p].member = OTHER_USER_ID
      /\ Len(smuckles_bonk_log) = Len(PreloadedMixed) - 2
      /\ smuckles_bonk_log[1] = PreloadedMixed[1]
      /\ smuckles_bonk_log[2] = PreloadedMixed[3]
      /\ smuckles_bonk_log[3] = PreloadedMixed[4]

\* C16: a leaderboard that /sandia or /bonktop shows is in descending order
\* of balance or count, and entries of equal balance or count are in
\* ascending order of id.
C16_LeaderboardOrder ==
    \A p \in Procs :
      (h[p].cmd \in {"sandia", "bonktop"} /\ h[p].pc = "done") =>
        \A i, j \in DOMAIN h[p].rows :
          i < j => \/ h[p].rows[i][2] > h[p].rows[j][2]
                   \/ /\ h[p].rows[i][2] = h[p].rows[j][2]
                      /\ h[p].rows[i][1] < h[p].rows[j][1]

\* C19: the count a bonk's handler reads is the number of rows of its guild
\* and of today, whoever bonked: all rows but those of other guilds and of
\* other days.
C19_DayCountScope ==
    [][\A p \in Procs :
         (h[p].pc = "count" /\ h'[p].pc = "streak") =>
           LET g == h[p].guild
               by(b) == Cardinality({i \in DOMAIN smuckles_bonk_log :
                          /\ smuckles_bonk_log[i].guild_id = g
                          /\ smuckles_bonk_log[i].day = today
                          /\ smuckles_bonk_log[i].bonker_id = b})
               elsewhere == Cardinality({i \in DOMAIN smuckles_bonk_log :
                              smuckles_bonk_log[i].guild_id # g})
               earlier == Cardinality({i \in DOMAIN smuckles_bonk_log :
                            /\ smuckles_bonk_log[i].guild_id = g
                            /\ smuckles_bonk_log[i].day # today})
           IN  /\ h'[p].count_today = by(OTHER_USER_ID) + by(SECOND_USER_ID)
               /\ h'[p].count_today = Len(smuckles_bonk_log) - elsewhere - earlier]_vars

\* SECOND_USER_ID's bonk in guild 1 is counted as the fourth of today, after
\* three by both members, with a bonk of another day and one of guild 2 in
\* the log.
C19_Witness ==
    \E p \in Procs :
      /\ h[p].pc = "streak" /\ h[p].guild = 1 /\ h[p].user = SECOND_USER_ID
      /\ h[p].count_today = 4
      /\ \E i \in DOMAIN smuckles_bonk_log :
           smuckles_bonk_log[i].guild_id = 1 /\ smuckles_bonk_log[i].day # today
      /\ \E i \in DOMAIN smuckles_bonk_log : smuckles_bonk_log[i].guild_id = 2
      /\ \E i \in DOMAIN smuckles_bonk_log :
           /\ smuckles_bonk_log[i].guild_id = 1 /\ smuckles_bonk_log[i].day = today
           /\ smuckles_bonk_log[i].bonker_id = OTHER_USER_ID


\* Where tokens stand in a message, as <<place, token>>: the text's tokens
\* at 1, 2, ..., those of embed k after 1000 * k, in its url, description and
\* title at 100, 200 and 300 and in field f's name and value after them.
Occurrences(msg) ==
    LET at(base, text) == {<<base + j, text[j]>> : j \in DOMAIN text}
        inField(k, f) ==
          at(1000 * k + 100 * (2 * f + 2), msg.embeds[k].fields[f].name)
            \cup at(1000 * k + 100 * (2 * f + 3), msg.embeds[k].fields[f].value)
        inEmbed(k) ==
          at(1000 * k + 100, msg.embeds[k].url)
            \cup at(1000 * k + 200, msg.embeds[k].description)
            \cup at(1000 * k + 300, msg.embeds[k].title)
            \cup UNION {inField(k, f) : f \in DOMAIN msg.embeds[k].fields}
    IN  {o \in at(0, msg.content) \cup UNION {inEmbed(k) : k \in DOMAIN msg.embeds} :
           o[2] \in {"sp_a", "sp_b", "sp_c"}}

\* The first place of link u in msg.
FirstPlace(msg, u) ==
    CHOOSE n \in {o[1] : o \in {x \in Occurrences(msg) : x[2] = u}} :
      \A o \in Occurrences(msg) : o[2] = u => n <= o[1]

\* C17: the extracted sequence holds every link of the message's text and
\* embeds once, in the order of their first places: the text first, then
\* each embed's url, description, title and fields' names and values.
C17_ExtractionOrder ==
    \A p \in Procs : (h[p].cmd = "extract" /\ h[p].pc = "done") =>
      LET r == h[p].urls IN
      /\ \A i, j \in DOMAIN r : r[i] = r[j] => i = j
      /\ {r[i] : i \in DOMAIN r} = {o[2] : o \in Occurrences(h[p].msg)}
      /\ \A i, j \in DOMAIN r :
           i < j => FirstPlace(h[p].msg, r[i]) < FirstPlace(h[p].msg, r[j])

\* A text with one link twice and an embed repeating it after another link
\* in its description, with a third link in its title.
C17_Witness ==
    \E p \in Procs :
      /\ h[p].cmd = "extract" /\ h[p].pc = "done"
      /\ h[p].msg.content = <<"sp_b", "sp_b">>
      /\ Len(h[p].msg.embeds) = 1
      /\ h[p].msg.embeds[1].description = <<"sp_b", "sp_a">>
      /\ h[p].msg.embeds[1].title = <<"sp_c">>
      /\ h[p].urls = <<"sp_b", "sp_a", "sp_c">>


\* The keys stored for message id, and the keys of the links of message m
\* as the target's in guild g.
StoredKeys(id) ==
    {LinkKey(smuckles_spotify_links[i]) :
       i \in {j \in DOMAIN smuckles_spotify_links :
                smuckles_spotify_links[j].message_id = id}}

KeysOfMessage(m, g) == {<<g, TARGET_USER_ID, m.id, o[2]>> : o \in Occurrences(m)}

\* C20: once live capture has handled a guild message of the target, the
\* keys stored for it are those of its links; once a scan has reported, the
\* keys stored for every message of the target in its window are those of
\* its links, the same keys; and every stored row is the target's, of a
\* message the target wrote.
C20_SamePipeline ==
    /\ \A p \in Procs :
         (/\ h[p].cmd = "message" /\ h[p].pc \in {"reminder", "done"}
          /\ h[p].msg.author = TARGET_USER_ID /\ h[p].msg.guild # 0)
           => StoredKeys(h[p].msg.id) = KeysOfMessage(h[p].msg, h[p].msg.guild)
    /\ \A p \in Procs :
         (h[p].cmd = "scan" /\ h[p].pc = "done" /\ h[p].reply = "report") =>
           \A i \in DOMAIN h[p].window :
             h[p].window[i].author = TARGET_USER_ID =>
               StoredKeys(h[p].window[i].id) = KeysOfMessage(h[p].window[i], h[p].guild)
    /\ \A i \in DOMAIN smuckles_spotify_links :
         /\ smuckles_spotify_links[i].user_id = TARGET_USER_ID
         /\ \E m \in Messages :
              /\ m.id = smuckles_spotify_links[i].message_id
              /\ m.author = TARGET_USER_ID

\* Live capture handled the target's message with the embedded link, and a
\* scan reported on a window with that message and another member's: the one
\* key is stored, and nothing for the other member's message.
C20_Witness ==
    \E p, q \in Procs :
      /\ h[p].cmd = "message" /\ h[p].pc = "done" /\ h[p].msg = MsgB
      /\ h[q].cmd = "scan" /\ h[q].pc = "done" /\ h[q].reply = "report"
      /\ h[q].window = <<MsgC, MsgB>>
      /\ StoredKeys(MsgB.id) = {<<1, TARGET_USER_ID, MsgB.id, "sp_a">>}
      /\ StoredKeys(MsgC.id) = {}


\* The step of handler p in which adjust_points commits.
Adjusts(p) == h[p].pc = "adjust" /\ h'[p].pc = "log_txn"

\* C21: account rows are created by the first adjustment and by nothing else,
\* and never deleted: a step keeps every row; the adjustment of a give, take
\* or penalty leaves the account with a row of its old balance (0 when it had
\* no row) plus the delta and touches no other row; a read returns the row's
\* balance, or 0 for an account without one; and every step but an adjustment
\* leaves the table as it was.
C21_AccountsLazy ==
    [][/\ DOMAIN smuckles_users \subseteq DOMAIN smuckles_users'
       /\ \A p \in Procs : Adjusts(p) =>
            LET k == <<h[p].guild, h[p].member>> IN
            /\ k \in DOMAIN smuckles_users'
            /\ smuckles_users'[k] =
                 (IF k \in DOMAIN smuckles_users THEN smuckles_users[k] ELSE 0)
                   + h[p].delta
            /\ DOMAIN smuckles_users' = DOMAIN smuckles_users \cup {k}
            /\ \A x \in DOMAIN smuckles_users \ {k} :
                 smuckles_users'[x] = smuckles_users[x]
       /\ (\A p \in Procs : ~Adjusts(p)) => smuckles_users' = smuckles_users
       /\ \A p \in Procs : Starts(p, "get_points") =>
            LET k == <<h'[p].guild, h'[p].member>> IN
            h'[p].total = IF k \in DOMAIN smuckles_users THEN smuckles_users[k] ELSE 0]_vars

\* The target's balance in guild 2 was read as 0 and there is no row of it,
\* while a take, the first adjustment in guild 1, has left a row there.
C21_Witness ==
    /\ h[1].cmd = "get_points" /\ h[1].pc = "done"
    /\ h[1].guild = 2 /\ h[1].member = TARGET_USER_ID /\ h[1].total = 0
    /\ DOMAIN smuckles_users = {<<1, TARGET_USER_ID>>}
    /\ smuckles_users[<<1, TARGET_USER_ID>>] = -MULTIPLE_OF
    /\ Len(smuckles_log) = 1

\* C26: the target's are the only accounts with a row or a balance other
\* than 0, and every ledger row has the target as its target, whoever gave,
\* took or bonked, and whichever member the command named.
C26_OnlyTarget ==
    /\ \A k \in DOMAIN smuckles_users : k[2] = TARGET_USER_ID
    /\ \A g \in Guilds, u \in Users \ {TARGET_USER_ID} : get_points(g, u) = 0
    /\ \A i \in DOMAIN smuckles_log : smuckles_log[i].target_id = TARGET_USER_ID

\* A give and a take that named another member were rejected for it, a
\* give to the target went through and the penalty was applied.
C26_Witness ==
    /\ h[1].cmd \in {"give", "take"} /\ h[1].pc = "rejected"
    /\ h[1].reply = "bad_target" /\ h[1].member = OTHER_USER_ID
    /\ get_points(1, TARGET_USER_ID) = MULTIPLE_OF - BONK_PENALTY_AMOUNT
    /\ Len(smuckles_log) = 2 /\ sent.penalty = 1


\* The reminders of guild g, and those of author a in guild g.
InGuild(rows, g) == SelectSeq(rows, LAMBDA r : r.guild_id = g)
NotInGuild(rows, g) == SelectSeq(rows, LAMBDA r : r.guild_id # g)
ByAuthor(rows, g, a) == SelectSeq(rows, LAMBDA r : r.guild_id = g /\ r.author_id = a)
NotByAuthor(rows, g, a) ==
    SelectSeq(rows, LAMBDA r : r.guild_id # g \/ r.author_id # a)

\* C22: the deleting step of an author's clear leaves no reminder of that
\* author in that guild and every other reminder where it was, and reports
\* their number; the deleting step of the admin's bulk wipe does the same
\* for the reminders of that guild; and no step of a bulk wipe asked for by
\* another member changes the reminders.
C22_DeletionScoped ==
    [][\A p \in Procs :
         /\ (h[p].cmd = "clearmyreminders" /\ h[p].pc = "clear" /\ h'[p].pc # "clear") =>
              /\ ByAuthor(smuckles_reminders', h[p].guild, h[p].user) = <<>>
              /\ NotByAuthor(smuckles_reminders', h[p].guild, h[p].user)
                   = NotByAuthor(smuckles_reminders, h[p].guild, h[p].user)
              /\ h'[p].removed = Len(ByAuthor(smuckles_reminders, h[p].guild, h[p].user))
         /\ (h[p].cmd = "clearemindbank" /\ h[p].pc = "clear" /\ h'[p].pc # "clear") =>
              /\ h[p].user = ADMIN_USER_ID
              /\ InGuild(smuckles_reminders', h[p].guild) = <<>>
              /\ NotInGuild(smuckles_reminders', h[p].guild)
                   = NotInGuild(smuckles_reminders, h[p].guild)
              /\ h'[p].removed = Len(InGuild(smuckles_reminders, h[p].guild))
         /\ (h'[p] # h[p] /\ h'[p].cmd = "clearemindbank" /\ h'[p].user # ADMIN_USER_ID) =>
              h'[p].pc = "rejected" /\ smuckles_reminders' = smuckles_reminders
         /\ (h'[p] # h[p] /\ h[p].cmd = "clearemindbank" /\ h[p].user # ADMIN_USER_ID) =>
              h'[p].pc = "idle" /\ smuckles_reminders' = smuckles_reminders]_vars

\* OTHER_USER_ID cleared in guild 1: the two reminders are gone, and the one
\* of SECOND_USER_ID there and OTHER_USER_ID's own in guild 2 are kept.
C22_Witness ==
    \E p \in Procs :
      /\ h[p].cmd = "clearmyreminders" /\ h[p].pc = "done"
      /\ h[p].guild = 1 /\ h[p].user = OTHER_USER_ID /\ h[p].removed = 2
      /\ smuckles_reminders = <<PreloadedReminders[2], PreloadedReminders[3]>>


\* C23: a give by the admin that names the target with a valid amount goes
\* on to adjust_points however recently the admin gave, while the same give
\* by the authorized giver, less than the cooldown after the giver's recorded
\* timestamp, is rejected for cooldown.
C23_AdminExempt ==
    [][\A p \in Procs :
         (/\ Starts(p, "give") /\ h'[p].member = TARGET_USER_ID
          /\ (is_valid_multiple(h'[p].amount) \/ h'[p].amount = JACKPOT)) =>
           /\ h'[p].user = ADMIN_USER_ID =>
                h'[p].pc = "adjust" /\ h'[p].reply # "cooldown"
           /\ (/\ h'[p].user = AUTHORIZED_GIVER_ID
               /\ AUTHORIZED_GIVER_ID \in DOMAIN last_give_ts
               /\ now - last_give_ts[AUTHORIZED_GIVER_ID] < GIVE_COOLDOWN_SECONDS) =>
                h'[p].pc = "rejected" /\ h'[p].reply = "cooldown"]_vars

\* The admin's give is on its way to adjust_points half a cooldown after the
\* admin's last timestamp, with an earlier give of the admin in the ledger.
C23_Witness ==
    /\ h[1].cmd = "give" /\ h[1].user = ADMIN_USER_ID /\ h[1].pc = "adjust"
    /\ ADMIN_USER_ID \in DOMAIN last_give_ts
    /\ now - last_give_ts[ADMIN_USER_ID] = GIVE_COOLDOWN_SECONDS \div 2
    /\ \E i \in DOMAIN smuckles_log : smuckles_log[i].actor_id = ADMIN_USER_ID

\* C25: the first cooldown check of an actor with no recorded timestamp in a
\* class, a give by the authorized giver or a bonk by any member, is not
\* answered with the cooldown, whatever the clock shows.
C25_FirstCheckAllowed ==
    [][\A p \in Procs :
         /\ (/\ Starts(p, "give") /\ h'[p].user = AUTHORIZED_GIVER_ID
             /\ AUTHORIZED_GIVER_ID \notin DOMAIN last_give_ts) =>
              h'[p].reply # "cooldown"
         /\ (Starts(p, "message") /\ h'[p].user \notin DOMAIN last_bonk_ts) =>
              h'[p].reply # "cooldown"]_vars


\* The ledger rows of the penalty: those the bot is the actor of.
Penalties == SelectSeq(smuckles_log, LAMBDA r : r.actor_id = BOT_USER_ID)

\* C24: when the bonk handlers that ran concurrently have all finished and
\* nothing raised, the day's n bonks in the guild, BONK_PENALTY_STEP - 1 of
\* them there from the start, have had every threshold they crossed fired
\* once: the penalties applied and the streak notifications sent since the
\* start are the multiples of the steps passed since then.
C24_ThresholdsOnce ==
    LET n == today_bonk_count(1)
        n0 == BONK_PENALTY_STEP - 1 IN
    (errors = 0 /\ \A p \in Procs : h[p].pc \in {"idle", "done"}) =>
      /\ Len(Penalties) = (n \div BONK_PENALTY_STEP) - (n0 \div BONK_PENALTY_STEP)
      /\ sent.meme = (n \div BONK_STREAK_STEP) - (n0 \div BONK_STREAK_STEP)

\* C27: the total that a completed give or take reports is the balance its
\* own adjust_points found plus its signed amount.
C27_ReceiptBalance ==
    \A p \in Procs :
      (h[p].cmd \in {"give", "take"} /\ h[p].pc = "done" /\ h[p].reply = "ok")
        => h[p].total = h[p].before + h[p].delta


\* Handler p starts on a guild message with "bonk" in this step.
StartsBonk(p) ==
    Starts(p, "message") /\ h'[p].msg.guild # 0 /\ HasBonk(h'[p].msg)

\* C28: a bonk message of an actor whose recorded bonk timestamp is less
\* than the cooldown old skips the bonk section, and no step of its handler
\* changes the bonk log, the balances, the ledger or the bonk timestamps or
\* sends anything; a bonk message at the cooldown or later goes on to
\* log_bonk, whose step appends one row of the guild, the actor, the target
\* and the day; so the rows added are as many as the bonks announced, less
\* one for a handler that stands before its log_bonk.
C28_CooldownFrame ==
    [][/\ \A p \in Procs :
            /\ (StartsBonk(p) /\ h'[p].user \in DOMAIN last_bonk_ts) =>
                 IF now - last_bonk_ts[h'[p].user] < BONK_COOLDOWN_SECONDS
                 THEN h'[p].reply = "cooldown" /\ h'[p].pc = "spotify"
                 ELSE h'[p].reply = "bonk" /\ h'[p].pc = "log_bonk"
            /\ (/\ h'[p] # h[p]
                /\ \/ h[p].cmd = "message" /\ h[p].reply = "cooldown"
                   \/ h'[p].cmd = "message" /\ h'[p].reply = "cooldown") =>
                 UNCHANGED <<smuckles_bonk_log, smuckles_users, smuckles_log,
                             last_bonk_ts, sent>>
            /\ (h[p].pc = "log_bonk" /\ h'[p] # h[p]) =>
                 /\ Len(smuckles_bonk_log') = Len(smuckles_bonk_log) + 1
                 /\ \A i \in DOMAIN smuckles_bonk_log :
                      smuckles_bonk_log'[i] = smuckles_bonk_log[i]
                 /\ smuckles_bonk_log'[Len(smuckles_bonk_log')] =
                      [guild_id |-> h[p].msg.guild, bonker_id |-> h[p].msg.author,
                       target_id |-> TARGET_USER_ID, day |-> today]
       /\ Len(smuckles_bonk_log') =
            (BONK_PENALTY_STEP - 2) + sent'.bonk
              - Cardinality({p \in Procs : h'[p].pc = "log_bonk"})]_vars

\* After the bonk that brought the penalty, a bonk of the same member two
\* seconds after the member's timestamp was handled to its end: there are
\* still 20 bonks, one penalty, and the timestamp is where it was.
C28_Witness ==
    /\ h[1].cmd = "message" /\ h[1].reply = "cooldown" /\ h[1].pc = "done"
    /\ h[1].user \in DOMAIN last_bonk_ts
    /\ now - last_bonk_ts[h[1].user] = BONK_COOLDOWN_SECONDS - 1
    /\ Len(smuckles_bonk_log) = BONK_PENALTY_STEP
    /\ smuckles_bonk_log[BONK_PENALTY_STEP].bonker_id = h[1].user
    /\ Len(Penalties) = 1 /\ sent.bonk = 2 /\ sent.penalty = 1

=============================================================================
